---- MODULE Spec2Model ----
(***************************************************************************)
(* State-machine model of the discrete-event combat engine of ffxiv_cli:   *)
(* the Arena scheduler (xivcore/core.py, class Arena), its task heap       *)
(* (xivcore/task.py, heapq), and the per-character status / action-economy *)
(* state machines that Arena.step drives.  One player (a Samurai with a    *)
(* four-ability kit taken from xivcore/job/samurai.py) and one enemy.      *)
(*                                                                         *)
(* Times are integer milliseconds as in the source.                        *)
(***************************************************************************)
EXTENDS Integers, Sequences, FiniteSets, TLC

(***************************************************************************)
(* Bounds of the model (not program constants).                            *)
(***************************************************************************)
MaxCalls == 3

MaxTasks == 4

FrameDeltas == {0, 1000, 30000}

TaskDelays == {0, 300}

StartTimes == {-1000}

MaxStatusCalls == 3

MaxEntries == 2
MaxComponents == 2
MaxRecords == 3
NumFights == {2}
TimeSeconds == {30, 60}
SampleValues == {4, 6, 100}

Window == 10000

ChargeDeltas == {100, 4900, 5000, 9900}

RecastDeltas == {500, 2500, 3000, 5000, 7000, 7500, 10000}

StatusDeltas == {15000}

SpeedDeltas == {2500}

Tolerances == {0, 300, 1300}

(***************************************************************************)
(* Program constants.                                                      *)
(***************************************************************************)
ANIMATION_LOCK == 700

RECAST_GROUP_GCD == 57

COMBO_TIME == 30000

APPLY_THRESHOLD == 400

CAST_LOCK_EXTRA == 100

SERVER_TICK_INTERVAL == 3000

\* Optional[int]: None is the empty tuple, an int n is <<n>>
None == <<>>

Some(n) == <<n>>

Val(o) == o[1]

NONE == "NONE"

Chars == {"P", "E"}

SamuraiActions == {"GYOFU", "YUKIKAZE", "HIGANBANA", "MEIKYO_SHISUI", "MEDITATE"}

\* Enpi and Hissatsu: Yaten of the samurai kit, and the common Potion
EnpiActions == {"ENPI", "HISSATSU_YATEN"}

\* the actions of the rotation scenarios: the samurai kit and "CHARGED", a
\* plain PvEAction of 2 charges, recast_time 5000, its own cooldown group and
\* a short lock
ActionIDs == SamuraiActions \cup {"CHARGED"}

\* ActionManager.actions of the player after register_samurai_actions and
\* register_common_actions
RegisteredActions == ActionIDs \cup EnpiActions \cup {"POTION"}

VARIABLES
    current_time,     \* Arena.current_time
    task_queue,       \* Arena.task_queue: the heapq list of Task objects
    pc,               \* position of the caller inside Arena.step
    remaining_time,   \* local remaining_time of the running Arena.step call
    am,               \* per character: ActionManager fields
    statuses,         \* per character: StatusManager.statuses
    gauge,            \* the player's SamuraiGauge
    rotation,         \* the player's Rotation
    auto_attack,      \* the player's auto-attack fields
    damage_taken,     \* per character: len(damage_taken)
    server_tick_on,   \* start_server_tick has been called
    next_id,          \* number of Task objects created so far
    calls,            \* history: number of Arena.step calls made
    start_time,       \* history: Arena.current_time at construction
    sum_delta,        \* history: sum of the frame_delta of all step calls
    last_exec,        \* history: the task executed last and the queue minimum then
    tie_log,          \* history: ids executed so far with the fire_time of last_exec
    last_iter,        \* history: step size and bounds of the last loop iteration
    last_use,         \* history: the last successful use_action call and the state it saw
    tick,             \* history: parity of the loop steps taken by the running step call
    cast_log,         \* history: the cast begun last and the on_apply calls made for it
    rot_log,          \* history: the last entry the rotation skipped or failed on
    dot_log,          \* history: per target, the DoT damage at the last apply/refresh and tick
    status_calls,     \* history: number of status calls made by the user
    charge_log,       \* history: the times at which "CHARGED" has been used
    mc,               \* the Monte-Carlo run over the damage records (montecarlo.py)
    distrib           \* the distribution constructed last (xivstats.py) and its inputs

\* the variables of the Arena and its histories
arena_vars == <<current_time, task_queue, pc, remaining_time, am, statuses, gauge,
                rotation, auto_attack, damage_taken, server_tick_on, next_id, calls,
                start_time, sum_delta, last_exec, tie_log, last_iter, last_use, tick,
                cast_log, rot_log, dot_log, status_calls, charge_log>>

\* all variables
vars == <<arena_vars, mc, distrib>>

(***************************************************************************)
(* Optional[int] arithmetic: update_step_size.                             *)
(***************************************************************************)
update_step_size(step_size, new_step) ==
    IF new_step # None /\ (step_size = None \/ Val(new_step) < Val(step_size))
    THEN new_step ELSE step_size

Max(a, b) == IF a > b THEN a ELSE b

Min(a, b) == IF a < b THEN a ELSE b

\* the value of a statement sequence {next(x) : x \in {first}}: first is
\* computed once and the statements after it read its result x
One(S) == CHOOSE r \in S : TRUE

(***************************************************************************)
(* Task ordering and the heapq operations on Arena.task_queue.             *)
(* Position p of the Python list is index p + 1 of the sequence.           *)
(***************************************************************************)
\* an ordering under which a task also precedes the tasks of its own fire_time
TaskLe(a, b) == a.time <= b.time

\* Task.__lt__
TaskLt(a, b) == a.time < b.time

RECURSIVE SiftDown(_, _, _, _)
SiftDown(heap, startpos, pos, newitem) ==
    LET parentpos == pos \div 2 IN
    IF pos > startpos /\ TaskLt(newitem, heap[parentpos])
    THEN SiftDown([heap EXCEPT ![pos] = heap[parentpos]], startpos, parentpos, newitem)
    ELSE [heap EXCEPT ![pos] = newitem]

RECURSIVE SiftUp(_, _, _)
SiftUp(heap, pos, newitem) ==
    LET childpos == 2 * pos
        rightpos == childpos + 1
        c == IF rightpos <= Len(heap) /\ ~TaskLt(heap[childpos], heap[rightpos])
             THEN rightpos ELSE childpos
    IN  IF childpos <= Len(heap)
        THEN SiftUp([heap EXCEPT ![pos] = heap[c]], c, newitem)
        ELSE SiftDown(heap, 1, pos, newitem)

HeapPush(heap, item) == SiftDown(Append(heap, item), 1, Len(heap) + 1, item)

\* heappop that moves the last task to the root without sifting it down
HeapPopNoSift(heap) ==
    LET lastelt == heap[Len(heap)]
        rest == SubSeq(heap, 1, Len(heap) - 1)
    IN  IF rest = <<>> THEN rest ELSE [rest EXCEPT ![1] = lastelt]

HeapPop(heap) ==
    LET lastelt == heap[Len(heap)]
        rest == SubSeq(heap, 1, Len(heap) - 1)
    IN  IF rest = <<>> THEN rest ELSE SiftUp(rest, 1, lastelt)

(***************************************************************************)
(* The ability kit registered on the player: PvEAction constructor data of *)
(* Gyofu, Yukikaze, Higanbana, MeikyoShisui and Meditate.                  *)
(***************************************************************************)
cast_time(a) == IF a = "HIGANBANA" THEN 1300 ELSE 0

recast_time(a) ==
    CASE a = "MEIKYO_SHISUI" -> 55000
      [] a = "MEDITATE" -> 60000
      [] a = "CHARGED" -> 5000
      [] a = "HISSATSU_YATEN" -> 10000
      [] a = "POTION" -> 270000
      [] OTHER -> 2500

cooldown_group(a) ==
    CASE a = "MEIKYO_SHISUI" -> 19
      [] a = "MEDITATE" -> 13
      [] a = "CHARGED" -> 20
      [] a = "HISSATSU_YATEN" -> 6
      [] a = "POTION" -> 59
      [] OTHER -> RECAST_GROUP_GCD

additional_cooldown_group(a) == IF a = "MEDITATE" THEN RECAST_GROUP_GCD ELSE 0

\* PvEAction.additional_recast_time
additional_recast_time(a) == IF a = "MEDITATE" THEN 2500 ELSE 0

max_charges(a) == IF a \in {"MEIKYO_SHISUI", "CHARGED"} THEN 2 ELSE 1

animation_lock(a) == IF a = "CHARGED" THEN 100 ELSE ANIMATION_LOCK

CooldownGroups == {cooldown_group(a) : a \in RegisteredActions}

WEAPON_DELAY == 2640

(***************************************************************************)
(* Status effects of the kit.  A StatusManager.statuses dict is a function *)
(* from the status ids present to their StatusEffect fields.               *)
(***************************************************************************)
StatusIDs == {"MEIKYO", "TENDO", "HIGANBANA", "MEDITATE", "FUGETSU", "BUFF"}

\* StatusEffect.__init__; damage_multiplier and main_stat_bonus are in 1/100,
\* snapshot is the snapshot_damage of a DoTStatus
StatusEffect(duration, source) ==
    [duration |-> duration, initial_duration |-> duration, time_elapsed |-> 0,
     has_stacks |-> FALSE, stacks |-> 0, max_stacks |-> 0, source |-> source,
     damage_multiplier |-> 100, is_dot |-> FALSE, potency |-> 0, snapshot |-> 0,
     main_stat_bonus |-> 0, main_stat_bonus_max |-> 0]

StackableStatus(duration, source, stacks, max_stacks) ==
    [StatusEffect(duration, source) EXCEPT !.has_stacks = TRUE,
                                           !.stacks = stacks,
                                           !.max_stacks = max_stacks]

BuffStatus(duration, source, damage_multiplier) ==
    [StatusEffect(duration, source) EXCEPT !.damage_multiplier = damage_multiplier]

MeikyoShisuiEffect == StackableStatus(20000, "P", 3, 3)

TendoEffect == StatusEffect(30000, "P")

MeditateEffect == StatusEffect(15000, "P")

\* EnhancedEnpiEffect, stored under StatusID.ENHANCED_ENPI
EnhancedEnpiEffect == StatusEffect(15000, "P")

\* PotionEffect: a BuffStatus of main_stat_bonus 0.1 capped at 392, which
\* passes status_id = StatusID.ENHANCED_ENPI to its base class
PotionEffect ==
    [StatusEffect(30000, "P") EXCEPT !.main_stat_bonus = 10,
                                     !.main_stat_bonus_max = 392]

\* the status id under which Potion._apply_effect stores its PotionEffect
PotionStatusID == "ENHANCED_ENPI"

FugetsuEffect == BuffStatus(40000, "P", 113)

\* FukaEffect and the user's speed buffs: the damage multiplier is 1.0
FukaEffect == BuffStatus(40000, "P", 100)

HasteBuff == BuffStatus(15000, "P", 100)

SwiftBuff == BuffStatus(15000, "P", 100)

is_expired(st, tolerance) ==
    st.duration <= tolerance \/ (st.has_stacks /\ st.stacks <= 0)

StatusEffectStep(st, delta_time) ==
    [st EXCEPT !.duration = Max(0, st.duration - delta_time),
               !.time_elapsed = st.time_elapsed + delta_time]

RECURSIVE GCD(_, _)
GCD(a, b) == IF b = 0 THEN a ELSE GCD(b, a % b)

\* the multiplier n/d as a fraction <<numerator, denominator>> in lowest terms
Fraction(n, d) == <<n \div GCD(n, d), d \div GCD(n, d)>>

\* the product of StatusManager.get_damage_multiplier over the statuses S
RECURSIVE DamageProduct(_, _)
DamageProduct(sts, S) ==
    IF S = {} THEN Fraction(1, 1)
    ELSE LET sid == CHOOSE x \in S : TRUE
             rest == DamageProduct(sts, S \ {sid})
         IN  Fraction(sts[sid].damage_multiplier * rest[1], 100 * rest[2])

\* the bonuses of the statuses S added up instead of multiplied
RECURSIVE DamageSum(_, _)
DamageSum(sts, S) ==
    IF S = {} THEN 0
    ELSE LET sid == CHOOSE x \in S : TRUE
         IN  (sts[sid].damage_multiplier - 100) + DamageSum(sts, S \ {sid})

\* get_damage_multiplier with additive stacking of the multipliers
get_damage_multiplierAdditive(w, c) ==
    Fraction(100 + DamageSum(w.statuses[c],
                      {sid \in DOMAIN w.statuses[c] : ~is_expired(w.statuses[c][sid], 0)}),
             100)

get_damage_multiplier(w, c) ==
    DamageProduct(w.statuses[c],
                  {sid \in DOMAIN w.statuses[c] : ~is_expired(w.statuses[c][sid], 0)})

\* calculate_potency_damage: the stat factors of the gearset are fixed, what
\* varies is the damage multiplier of the statuses; int() truncates
calculate_potency_damage(w, c, potency) ==
    (potency * get_damage_multiplier(w, c)[1]) \div get_damage_multiplier(w, c)[2]

\* DoTStatus.__init__: the snapshot is taken at creation
DoTStatus(w, source, duration, potency) ==
    [StatusEffect(duration, source) EXCEPT
        !.is_dot = TRUE,
        !.potency = potency,
        !.snapshot = calculate_potency_damage(w, source, potency)]

HiganbanaDoT(w) == DoTStatus(w, "P", 60000, 50)

\* StatusEffect.refresh, and DoTStatus.refresh which retakes the snapshot
refresh(w, st, other) ==
    [st EXCEPT !.source = other.source,
               !.duration = other.duration,
               !.initial_duration = other.initial_duration,
               !.stacks = IF st.has_stacks THEN Min(st.max_stacks, other.stacks)
                          ELSE st.stacks,
               !.snapshot = IF st.is_dot
                            THEN calculate_potency_damage(w, other.source, st.potency)
                            ELSE st.snapshot]

Without(f, k) == [x \in (DOMAIN f) \ {k} |-> f[x]]

With(f, k, v) == [x \in (DOMAIN f) \cup {k} |-> IF x = k THEN v ELSE f[x]]

\* add_status that replaces the status already present by the incoming one
add_statusReplace(w, c, sid, status) ==
    [w EXCEPT !.statuses[c] = With(w.statuses[c], sid, status),
              !.hooks = Append(w.hooks, <<"on_apply", c, sid>>),
              !.dot_log[c] = IF status.is_dot
                             THEN [applied |-> status.snapshot, ticked |-> 0]
                             ELSE @]

\* StatusManager.add_status on character c of world w
add_status(w, c, sid, status) ==
    IF sid \in DOMAIN w.statuses[c]
    THEN [w EXCEPT !.statuses[c][sid] = refresh(w, w.statuses[c][sid], status),
                   !.dot_log[c] =
                       IF w.statuses[c][sid].is_dot
                       THEN [applied |-> calculate_potency_damage(
                                             w, status.source, w.statuses[c][sid].potency),
                             ticked |-> 0]
                       ELSE @]
    ELSE [w EXCEPT !.statuses[c] = With(w.statuses[c], sid, status),
                   !.hooks = Append(w.hooks, <<"on_apply", c, sid>>),
                   !.dot_log[c] = IF status.is_dot
                                  THEN [applied |-> status.snapshot, ticked |-> 0]
                                  ELSE @]

has_status(w, c, sid, tolerance) ==
    sid \in DOMAIN w.statuses[c] /\ ~is_expired(w.statuses[c][sid], tolerance)

remove_status(w, c, sid) ==
    IF sid \in DOMAIN w.statuses[c]
    THEN [w EXCEPT !.statuses[c] = Without(w.statuses[c], sid),
                   !.hooks = Append(w.hooks, <<"on_remove", c, sid>>)]
    ELSE w

\* the loop of StatusManager.step over expired_statuses
RECURSIVE RemoveExpired(_, _, _)
RemoveExpired(w, c, S) ==
    IF S = {} THEN w
    ELSE LET sid == CHOOSE x \in S : TRUE
         IN  RemoveExpired(remove_status(w, c, sid), c, S \ {sid})

\* StatusManager.step that removes a status only when its duration is over
StatusManagerStepDurationOnly(w, c, delta_time) ==
    LET stepped == [sid \in DOMAIN w.statuses[c] |->
                        StatusEffectStep(w.statuses[c][sid], delta_time)]
    IN  RemoveExpired([w EXCEPT !.statuses[c] = stepped], c,
                      {sid \in DOMAIN stepped : stepped[sid].duration <= 0})

StatusManagerStep(w, c, delta_time) ==
    LET stepped == [sid \in DOMAIN w.statuses[c] |->
                        StatusEffectStep(w.statuses[c][sid], delta_time)]
    IN  RemoveExpired([w EXCEPT !.statuses[c] = stepped], c,
                      {sid \in DOMAIN stepped : is_expired(stepped[sid], 0)})

SetMin(S) == CHOOSE x \in S : \A y \in S : x <= y

StatusManagerCalcStepSize(w, c) ==
    LET sts == w.statuses[c] IN
    IF DOMAIN sts = {} THEN None
    ELSE IF \E sid \in DOMAIN sts : is_expired(sts[sid], 0) THEN Some(0)
    ELSE Some(SetMin({sts[sid].duration : sid \in DOMAIN sts}))

\* get_active_statuses that returns every status held, expired or not
get_active_statusesAll(w, c) == DOMAIN w.statuses[c]

get_active_statuses(w, c) ==
    {sid \in DOMAIN w.statuses[c] : ~is_expired(w.statuses[c][sid], 0)}

\* samurai.consume_meikyo: StackableStatus.consume_stack on a live Meikyo
consume_meikyo(w, c) ==
    IF has_status(w, c, "MEIKYO", 0) /\ w.statuses[c]["MEIKYO"].stacks > 0
    THEN [w EXCEPT !.statuses[c]["MEIKYO"].stacks = @ - 1]
    ELSE w

(***************************************************************************)
(* Arena.schedule_task and the deferred damage of BattleCharacter.         *)
(***************************************************************************)
schedule_task(w, delay, callback, arg) ==
    [w EXCEPT !.task_queue = HeapPush(w.task_queue,
                  [time |-> w.current_time + delay, id |-> w.next_id,
                   callback |-> callback, arg |-> arg]),
              !.next_id = w.next_id + 1]

prepare_damage(w, target, delay) == schedule_task(w, delay, "take_damage", target)

take_damage(w, c) == [w EXCEPT !.damage_taken[c] = @ + 1]

(***************************************************************************)
(* SpeedFlags scopes and StatusManager.get_speed_multiplier.  A status'     *)
(* speed_multiplier is in 1/1000, the product an exact reduced fraction.   *)
(* FukaEffect is the speed status of the kit; "HASTE" and "SWIFT" are      *)
(* BuffStatus objects of the user, with the scopes RECAST and CAST.        *)
(***************************************************************************)
speed_multiplier(sid) ==
    CASE sid = "FUKA" -> 870
      [] sid = "HASTE" -> 900
      [] sid = "SWIFT" -> 500
      [] OTHER -> 1000

speed_flags(sid) ==
    CASE sid = "FUKA" -> {"RECAST", "AUTO_ATTACK"}
      [] sid = "HASTE" -> {"RECAST"}
      [] sid = "SWIFT" -> {"CAST"}
      [] OTHER -> {}

RECURSIVE SpeedProduct(_)
SpeedProduct(S) ==
    IF S = {} THEN <<1, 1>>
    ELSE LET sid == CHOOSE x \in S : TRUE
             rest == SpeedProduct(S \ {sid})
         IN  Fraction(speed_multiplier(sid) * rest[1], 1000 * rest[2])

\* get_speed_multiplier that multiplies the statuses of every scope
get_speed_multiplierAnyScope(w, c, flag) ==
    SpeedProduct({sid \in DOMAIN w.statuses[c] : ~is_expired(w.statuses[c][sid], 0)})

get_speed_multiplier(w, c, flag) ==
    SpeedProduct({sid \in DOMAIN w.statuses[c] :
                     ~is_expired(w.statuses[c][sid], 0) /\ flag \in speed_flags(sid)})

\* x * multiplier for the fraction multiplier, floored
Scaled(x, multiplier) == (x * multiplier[1]) \div multiplier[2]

(***************************************************************************)
(* RecastDetail.                                                           *)
(***************************************************************************)
RecastIdle == [time_elapsed |-> 0, total |-> 0]

remaining(rd) == rd.total - rd.time_elapsed

is_active(rd) == rd.total > 0 /\ 0 <= rd.time_elapsed /\ rd.time_elapsed < rd.total

\* RecastDetail.step that ends a cooldown one charge early
RecastDetailStepEarly(rd, delta_time) ==
    IF (rd.time_elapsed + delta_time) * 2 >= rd.total
    THEN RecastIdle
    ELSE [rd EXCEPT !.time_elapsed = rd.time_elapsed + delta_time]

RecastDetailStep(rd, delta_time) ==
    IF rd.time_elapsed + delta_time >= rd.total
    THEN RecastIdle
    ELSE [rd EXCEPT !.time_elapsed = rd.time_elapsed + delta_time]

(***************************************************************************)
(* ActionManager.                                                          *)
(***************************************************************************)
ActionManagerInit(groups) ==
    [animation_lock |-> 0,
     casting_action_id |-> NONE, casting_time |-> 0, casting_time_max |-> 0,
     casting_apply_callback |-> NONE,
     last_combo_action_id |-> NONE, last_combo_time |-> 0,
     cooldowns |-> [g \in groups |-> RecastIdle]]

is_casting(a) ==
    /\ a.casting_action_id # NONE
    /\ a.casting_time_max > 0
    /\ 0 <= a.casting_time /\ a.casting_time < a.casting_time_max

get_casting_time_remaining(a) ==
    IF is_casting(a) THEN a.casting_time_max - a.casting_time ELSE 0

is_locked(a, tolerance) ==
    a.animation_lock > tolerance \/ get_casting_time_remaining(a) > tolerance

start_casting(w, c, action_id, cast, on_apply) ==
    [w EXCEPT !.am[c].casting_action_id = action_id,
              !.am[c].casting_time = 0,
              !.am[c].casting_time_max = cast,
              !.am[c].casting_apply_callback = on_apply,
              !.cast_log = [n |-> 1, started_at |-> w.current_time, cast_time |-> cast,
                            applied |-> 0, applied_at |-> 0,
                            ended |-> FALSE, cancelled |-> FALSE]]

cancel_casting(w, c) ==
    [w EXCEPT !.am[c].casting_action_id = NONE,
              !.am[c].casting_time = 0,
              !.am[c].casting_time_max = 0,
              !.am[c].casting_apply_callback = NONE]

start_combo(w, c, action_id) ==
    [w EXCEPT !.am[c].last_combo_action_id = action_id,
              !.am[c].last_combo_time = COMBO_TIME]

reset_combo(w, c) ==
    [w EXCEPT !.am[c].last_combo_action_id = NONE,
              !.am[c].last_combo_time = 0]

set_last_cast(w, c, action_id, combo_flag) ==
    IF combo_flag = "RESET" THEN reset_combo(w, c)
    ELSE IF combo_flag = "SUCCESS" THEN start_combo(w, c, action_id)
    ELSE w

check_combo_chain(a, precombo_action_id) ==
    a.last_combo_action_id = precombo_action_id /\ a.last_combo_time > 0

get_recast_detail(a, action_id) ==
    IF action_id \in RegisteredActions /\ cooldown_group(action_id) \in DOMAIN a.cooldowns
    THEN Some(cooldown_group(action_id)) ELSE None

get_additional_recast_detail(a, action_id) ==
    IF /\ action_id \in RegisteredActions
       /\ additional_cooldown_group(action_id) # 0
       /\ additional_cooldown_group(action_id) \in DOMAIN a.cooldowns
    THEN Some(additional_cooldown_group(action_id)) ELSE None

get_adjusted_recast_time(w, c, action_id) ==
    IF action_id \notin RegisteredActions THEN 0
    ELSE IF cooldown_group(action_id) = RECAST_GROUP_GCD
    THEN (Scaled(recast_time(action_id), get_speed_multiplier(w, c, "RECAST")) \div 10) * 10
    ELSE recast_time(action_id)

get_adjusted_additional_recast_time(w, c, action_id) ==
    IF action_id \notin RegisteredActions THEN 0
    ELSE IF additional_cooldown_group(action_id) = RECAST_GROUP_GCD
    THEN (Scaled(recast_time(action_id), get_speed_multiplier(w, c, "RECAST")) \div 10) * 10
    ELSE recast_time(action_id)

\* is_action_offcooldown that looks at the primary cooldown group only
is_action_offcooldownPrimaryOnly(a, action_id, tolerance) ==
    LET rd == get_recast_detail(a, action_id)
        time_tolerance == IF tolerance >= 0 THEN tolerance ELSE 0
    IN  IF rd = None THEN FALSE
        ELSE ~(/\ is_active(a.cooldowns[Val(rd)])
               /\ (a.cooldowns[Val(rd)].time_elapsed + time_tolerance)
                      * max_charges(action_id) < a.cooldowns[Val(rd)].total)

\* is_action_offcooldown that does not count the charges of a running group
is_action_offcooldownNoCharges(a, action_id, tolerance) ==
    get_recast_detail(a, action_id) # None

is_action_offcooldown(a, action_id, tolerance) ==
    LET rd == get_recast_detail(a, action_id)
        ard == get_additional_recast_detail(a, action_id)
        time_tolerance == IF tolerance >= 0 THEN tolerance ELSE 0
    IN  IF rd = None THEN FALSE
        ELSE IF /\ ard # None
                /\ is_active(a.cooldowns[Val(ard)])
                /\ remaining(a.cooldowns[Val(ard)]) > time_tolerance
        THEN FALSE
        ELSE IF /\ is_active(a.cooldowns[Val(rd)])
                /\ (a.cooldowns[Val(rd)].time_elapsed + time_tolerance)
                       * max_charges(action_id) < a.cooldowns[Val(rd)].total
        THEN FALSE
        ELSE TRUE

\* RecastDetail.is_charge_exhausted(max_charges)
RecastDetailIsChargeExhausted(rd, charges) ==
    IF charges > 1 THEN rd.total >= rd.time_elapsed * charges ELSE is_active(rd)

\* ActionManager.is_charge_exhausted(action_id)
is_charge_exhausted(a, action_id) ==
    LET rd == get_recast_detail(a, action_id)
        ard == get_additional_recast_detail(a, action_id)
    IN  IF rd = None THEN FALSE
        ELSE IF ard # None /\ is_active(a.cooldowns[Val(ard)]) THEN TRUE
        ELSE IF is_active(a.cooldowns[Val(rd)]) THEN FALSE
        ELSE RecastDetailIsChargeExhausted(a.cooldowns[Val(rd)], max_charges(action_id))

\* start_cooldown that restarts the charges of the group at every use
start_cooldownRestart(w, c, action_id) ==
    LET adjusted == get_adjusted_recast_time(w, c, action_id)
    IN  [w EXCEPT !.am[c].cooldowns[cooldown_group(action_id)] =
            [time_elapsed |-> (max_charges(action_id) - 1) * adjusted,
             total |-> max_charges(action_id) * adjusted]]

\* start_cooldown that leaves the recast group as it is
start_cooldownNone(w, c, action_id) == w

start_cooldown(w, c, action_id) ==
    LET a == w.am[c]
        rd == get_recast_detail(a, action_id)
        ard == get_additional_recast_detail(a, action_id)
        adjusted == get_adjusted_recast_time(w, c, action_id)
        adjusted_total == max_charges(action_id) * adjusted
        old == a.cooldowns[Val(rd)]
        new == IF max_charges(action_id) <= 1
               THEN [time_elapsed |-> 0, total |-> adjusted]
               ELSE IF ~is_active(old) \/ adjusted_total < old.total
               THEN [time_elapsed |-> adjusted_total - adjusted, total |-> adjusted_total]
               ELSE [old EXCEPT !.time_elapsed = Max(0, old.time_elapsed - adjusted)]
        w1 == [w EXCEPT !.am[c].cooldowns[Val(rd)] = new]
    IN  IF rd = None THEN w
        ELSE IF ard = None THEN w1
        ELSE [w1 EXCEPT !.am[c].cooldowns[Val(ard)] =
                 [time_elapsed |-> 0,
                  total |-> get_adjusted_additional_recast_time(w, c, action_id)]]

\* _update_combo_state that stops the timer at 0 and keeps the combo action
_update_combo_stateKeepAction(w, c, step_size) ==
    [w EXCEPT !.am[c].last_combo_time =
                  IF w.am[c].last_combo_action_id # NONE THEN Max(0, @ - step_size) ELSE 0]

_update_combo_state(w, c, step_size) ==
    IF w.am[c].last_combo_action_id # NONE
    THEN IF Max(0, w.am[c].last_combo_time - step_size) <= 0
         THEN reset_combo(w, c)
         ELSE [w EXCEPT !.am[c].last_combo_time = Max(0, @ - step_size)]
    ELSE [w EXCEPT !.am[c].last_combo_time = 0]

\* calc_step_size that leaves the active cooldowns out
ActionManagerCalcStepSizeNoCooldown(a) ==
    LET s1 == IF a.animation_lock > 0 THEN Some(a.animation_lock) ELSE None
        remaining_cast_time == a.casting_time_max - a.casting_time
        s2 == IF is_casting(a)
              THEN IF a.casting_apply_callback # NONE
                   THEN update_step_size(s1, Some(Max(0, remaining_cast_time - APPLY_THRESHOLD)))
                   ELSE Some(remaining_cast_time)
              ELSE s1
    IN  IF a.last_combo_action_id # NONE
        THEN update_step_size(s2, Some(a.last_combo_time - a.casting_time))
        ELSE s2

ActionManagerCalcStepSize(a) ==
    LET s1 == IF a.animation_lock > 0 THEN Some(a.animation_lock) ELSE None
        remaining_cast_time == a.casting_time_max - a.casting_time
        s2 == IF is_casting(a)
              THEN IF a.casting_apply_callback # NONE
                   THEN update_step_size(s1, Some(Max(0, remaining_cast_time - APPLY_THRESHOLD)))
                   ELSE Some(remaining_cast_time)
              ELSE s1
        s3 == IF a.last_combo_action_id # NONE
              THEN update_step_size(s2, Some(a.last_combo_time - a.casting_time))
              ELSE s2
        active == {g \in DOMAIN a.cooldowns : is_active(a.cooldowns[g])}
    IN  IF active = {} THEN s3
        ELSE update_step_size(s3, Some(SetMin({remaining(a.cooldowns[g]) : g \in active})))

(***************************************************************************)
(* SamuraiGauge.                                                           *)
(***************************************************************************)
SamuraiGaugeInit == [kenki |-> 0, sen |-> {}, meditation_stacks |-> 0]

add_kenki(w, amount) == [w EXCEPT !.gauge.kenki = @ + amount]

\* SamuraiGauge.spend_kenki: the return value and the world after
spend_kenki(w, amount) ==
    IF w.gauge.kenki >= amount
    THEN [ok |-> TRUE, w |-> [w EXCEPT !.gauge.kenki = @ - amount]]
    ELSE [ok |-> FALSE, w |-> w]

add_sen(w, sen_flag) == [w EXCEPT !.gauge.sen = @ \cup {sen_flag}]

clear_sen(w) == [w EXCEPT !.gauge.sen = {}]

count_sen(w) == Cardinality(w.gauge.sen)

add_meditation(w) == [w EXCEPT !.gauge.meditation_stacks = Min(3, @ + 1)]

(***************************************************************************)
(* The abilities: can_use, _apply_effect, PvEAction.execute.               *)
(***************************************************************************)
is_samurai(caster) == caster = "P"

\* samurai.check_combo_chain: a live Meikyo stands in for the combo
samurai_check_combo_chain(w, caster, precombo_action_id) ==
    \/ has_status(w, caster, "MEIKYO", 0)
    \/ check_combo_chain(w.am[caster], precombo_action_id)

\* can_use that checks the cooldown only, not the lock
PvEActionCanUseNoLock(w, action_id, caster, tolerance) ==
    is_action_offcooldown(w.am[caster], action_id, tolerance)

PvEActionCanUse(w, action_id, caster, tolerance) ==
    /\ ~is_locked(w.am[caster], tolerance)
    /\ is_action_offcooldown(w.am[caster], action_id, tolerance)

can_use(w, action_id, caster, target, tolerance) ==
    /\ PvEActionCanUse(w, action_id, caster, tolerance)
    /\ action_id \in SamuraiActions \cup EnpiActions => is_samurai(caster)
    /\ (cooldown_group(action_id) = RECAST_GROUP_GCD
            => target # NONE /\ target # caster)
    /\ (action_id = "HIGANBANA" => count_sen(w) = 1)
    /\ (action_id = "HISSATSU_YATEN" => w.gauge.kenki >= 10)

GyofuApplyEffect(w, caster, target) ==
    LET w1 == consume_meikyo(w, caster)
        w2 == add_kenki(w1, 5)
        w3 == prepare_damage(w2, target, ANIMATION_LOCK)
    IN  set_last_cast(w3, caster, "GYOFU", "SUCCESS")

YukikazeApplyEffect(w, caster, target) ==
    LET chained == \/ samurai_check_combo_chain(w, caster, "HAKAZE")
                   \/ samurai_check_combo_chain(w, caster, "GYOFU")
        w1 == IF chained
              THEN add_sen(add_kenki(consume_meikyo(w, caster), 15), "SETSU")
              ELSE w
        w2 == set_last_cast(w1, caster, "YUKIKAZE", "RESET")
    IN  prepare_damage(w2, target, ANIMATION_LOCK)

HiganbanaApplyEffect(w, caster, target) ==
    LET w1 == prepare_damage(w, target, ANIMATION_LOCK)
        w2 == add_status(w1, target, "HIGANBANA", HiganbanaDoT(w1))
        w3 == add_meditation(clear_sen(w2))
    IN  set_last_cast(w3, caster, "HIGANBANA", "NONE")

MeikyoShisuiApplyEffect(w, caster, target) ==
    LET w1 == add_status(w, caster, "MEIKYO", MeikyoShisuiEffect)
        w2 == add_status(w1, caster, "TENDO", TendoEffect)
    IN  set_last_cast(w2, caster, "MEIKYO_SHISUI", "NONE")

MeditateApplyEffect(w, caster, target) ==
    set_last_cast(add_status(w, caster, "MEDITATE", MeditateEffect),
                  caster, "MEDITATE", "NONE")

EnpiApplyEffect(w, caster, target) ==
    LET w1 == add_kenki(w, 10)
        w2 == remove_status(w1, caster, "ENHANCED_ENPI")
        w3 == prepare_damage(w2, target, ANIMATION_LOCK)
    IN  set_last_cast(w3, caster, "ENPI", "NONE")

HissatsuYatenApplyEffect(w, caster, target) ==
    LET w1 == spend_kenki(w, 10).w
        w2 == prepare_damage(w1, target, ANIMATION_LOCK)
        w3 == add_status(w2, caster, "ENHANCED_ENPI", EnhancedEnpiEffect)
    IN  set_last_cast(w3, caster, "HISSATSU_YATEN", "NONE")

PotionApplyEffect(w, caster, target) ==
    LET w1 == remove_status(w, caster, "MEDITATE")
        w2 == add_status(w1, caster, PotionStatusID, PotionEffect)
        w3 == start_cooldown(w2, caster, "POTION")
        w4 == set_last_cast(w3, caster, "POTION", "NONE")
    IN  [w4 EXCEPT !.am[caster].animation_lock = ANIMATION_LOCK]

_apply_effect(w, action_id, caster, target) ==
    CASE action_id = "GYOFU" -> GyofuApplyEffect(w, caster, target)
      [] action_id = "YUKIKAZE" -> YukikazeApplyEffect(w, caster, target)
      [] action_id = "HIGANBANA" -> HiganbanaApplyEffect(w, caster, target)
      [] action_id = "MEIKYO_SHISUI" -> MeikyoShisuiApplyEffect(w, caster, target)
      [] action_id = "MEDITATE" -> MeditateApplyEffect(w, caster, target)
      [] action_id = "ENPI" -> EnpiApplyEffect(w, caster, target)
      [] action_id = "HISSATSU_YATEN" -> HissatsuYatenApplyEffect(w, caster, target)
      [] action_id = "POTION" -> PotionApplyEffect(w, caster, target)
      [] action_id = "CHARGED" -> w

\* the apply callback that locks for the remaining cast time only
_on_casting_ready_to_finishNoExtra(w, action_id, caster, target) ==
    One({ [w1 EXCEPT !.am[caster].animation_lock =
                         w1.am[caster].casting_time_max - w1.am[caster].casting_time]
          : w1 \in {_apply_effect(w, action_id, caster, target)} })

_on_casting_ready_to_finish(w, action_id, caster, target) ==
    One({ LET casting_time_remain ==
                  w1.am[caster].casting_time_max - w1.am[caster].casting_time
          IN  [w1 EXCEPT !.am[caster].animation_lock =
                             casting_time_remain + CAST_LOCK_EXTRA]
          : w1 \in {_apply_effect(w, action_id, caster, target)} })

\* execute that starts the cooldown before it checks can_use
executeCooldownFirst(w, action_id, caster, target) ==
    One({ IF ~can_use(w, action_id, caster, target, 0)
          THEN [ok |-> FALSE, w |-> w1]
          ELSE IF cast_time(action_id) > 0
          THEN [ok |-> TRUE,
                w |-> start_casting(w1, caster, action_id, cast_time(action_id), action_id)]
          ELSE [ok |-> TRUE,
                w |-> [_apply_effect(w1, action_id, caster, target)
                          EXCEPT !.am[caster].animation_lock = animation_lock(action_id)]]
          : w1 \in {start_cooldown(w, caster, action_id)} })

\* the result of execute / use_action: the return value and the world after
execute(w, action_id, caster, target) ==
    IF ~can_use(w, action_id, caster, target, 0)
    THEN [ok |-> FALSE, w |-> w]
    ELSE One({ IF cast_time(action_id) > 0
               THEN [ok |-> TRUE,
                     w |-> start_casting(w1, caster, action_id, cast_time(action_id), action_id)]
               ELSE [ok |-> TRUE,
                     w |-> [_apply_effect(w1, action_id, caster, target)
                               EXCEPT !.am[caster].animation_lock = animation_lock(action_id)]]
               : w1 \in {start_cooldown(w, caster, action_id)} })

use_action(w, caster, action_id, target) ==
    IF action_id \notin RegisteredActions THEN [ok |-> FALSE, w |-> w]
    ELSE One({ IF r.ok
               THEN [r EXCEPT !.w.last_use =
                        [action_id |-> action_id, ok |-> r.ok,
                         animation_lock |-> w.am[caster].animation_lock,
                         is_casting |-> is_casting(w.am[caster])],
                              !.w.charge_log =
                        IF action_id = "CHARGED" THEN Append(@, w.current_time) ELSE @]
               ELSE r
               : r \in {execute(w, action_id, caster, target)} })

(***************************************************************************)
(* ActionManager.step and its cast update.                                 *)
(***************************************************************************)
current_target(c) == IF c = "P" THEN "E" ELSE NONE

_update_action_cast(w, c, step_size) ==
    LET a == w.am[c]
        ct == Min(a.casting_time + step_size, a.casting_time_max)
        remaining_cast_time == a.casting_time_max - ct
        w1 == [w EXCEPT !.am[c].casting_time = ct]
    IN  IF is_casting(a)
        THEN One({ IF remaining_cast_time <= 0
                   THEN [w2 EXCEPT !.am[c].casting_action_id = NONE,
                                   !.am[c].casting_time = 0,
                                   !.am[c].casting_time_max = 0,
                                   !.cast_log.ended = TRUE]
                   ELSE w2
                   : w2 \in {IF /\ remaining_cast_time <= APPLY_THRESHOLD
                                /\ a.casting_apply_callback # NONE
                             THEN [_on_casting_ready_to_finish(
                                       w1, a.casting_apply_callback, c, current_target(c))
                                      EXCEPT !.am[c].casting_apply_callback = NONE,
                                             !.cast_log.applied = @ + 1,
                                             !.cast_log.applied_at = w.current_time]
                             ELSE w1} })
        ELSE IF a.casting_action_id # NONE
             THEN [cancel_casting(w, c) EXCEPT !.cast_log.ended = TRUE]
             ELSE cancel_casting(w, c)

ActionManagerStep(w, c, step_size) ==
    LET w1 == [w EXCEPT !.am[c].animation_lock = Max(0, @ - step_size)]
        w2 == _update_action_cast(w1, c, step_size)
        w3 == _update_combo_state(w2, c, step_size)
    IN  [w3 EXCEPT !.am[c].cooldowns =
            [g \in DOMAIN @ |-> RecastDetailStep(@[g], step_size)]]

(***************************************************************************)
(* Rotation.  An entry is [action_id, time, condition]; time is            *)
(* Optional[int], condition is NONE or names the callable given by the     *)
(* user.  w.error is set when execute_next raises RuntimeError.            *)
(***************************************************************************)
\* next_action.condition(owner, target): the callables the rotations use
Condition(w, name, target) ==
    CASE name = "one_sen" -> count_sen(w) = 1
      [] OTHER -> TRUE

\* the entry is attempted: execute_next gets as far as use_action
Attempted(w, time_now) ==
    /\ w.rotation.enabled
    /\ w.rotation.current_index < Len(w.rotation.actions)
    /\ LET next_action == w.rotation.actions[w.rotation.current_index + 1]
       IN  /\ next_action.time # None => Val(next_action.time) <= time_now
           /\ current_target("P") # NONE
           /\ next_action.condition # NONE
                 => Condition(w, next_action.condition, current_target("P"))
RotationCalcStepSize(w) ==
    LET r == w.rotation IN
    IF ~r.enabled THEN None
    ELSE IF r.current_index < Len(r.actions)
            /\ r.actions[r.current_index + 1].time # None
    THEN Some(Val(r.actions[r.current_index + 1].time) - w.current_time)
    ELSE None

\* execute_next that skips an entry whose action fails although it is ready
execute_nextSkipOnFail(w, time_now) ==
    LET r == w.rotation
        next_action == r.actions[r.current_index + 1]
        target == current_target("P")
    IN  IF ~r.enabled THEN w
        ELSE IF r.current_index >= Len(r.actions) THEN w
        ELSE IF next_action.time # None /\ Val(next_action.time) > time_now THEN w
        ELSE IF target = NONE THEN [w EXCEPT !.error = TRUE]
        ELSE IF /\ next_action.condition # NONE
                /\ ~Condition(w, next_action.condition, target)
        THEN [w EXCEPT !.rotation.current_index = @ + 1,
                       !.rot_log = [event |-> "skipped", index |-> r.current_index]]
        ELSE One({ IF res.ok THEN [res.w EXCEPT !.rotation.current_index = @ + 1]
                   ELSE IF /\ is_action_offcooldown(res.w.am["P"], next_action.action_id, 0)
                           /\ res.w.am["P"].animation_lock <= 0
                           /\ ~is_casting(res.w.am["P"])
                   THEN [res.w EXCEPT !.rotation.current_index = @ + 1,
                                      !.rot_log = [event |-> "ready_fail",
                                                   index |-> r.current_index]]
                   ELSE res.w
                   : res \in {use_action(w, "P", next_action.action_id, target)} })

\* execute_next that stays on an entry whose condition is false
execute_nextConditionStays(w, time_now) ==
    LET r == w.rotation
        next_action == r.actions[r.current_index + 1]
        target == current_target("P")
    IN  IF ~r.enabled THEN w
        ELSE IF r.current_index >= Len(r.actions) THEN w
        ELSE IF next_action.time # None /\ Val(next_action.time) > time_now THEN w
        ELSE IF target = NONE THEN [w EXCEPT !.error = TRUE]
        ELSE IF /\ next_action.condition # NONE
                /\ ~Condition(w, next_action.condition, target)
        THEN [w EXCEPT !.rot_log = [event |-> "skipped", index |-> r.current_index]]
        ELSE One({ IF res.ok THEN [res.w EXCEPT !.rotation.current_index = @ + 1]
                   ELSE IF /\ is_action_offcooldown(res.w.am["P"], next_action.action_id, 0)
                           /\ res.w.am["P"].animation_lock <= 0
                           /\ ~is_casting(res.w.am["P"])
                   THEN [res.w EXCEPT !.error = TRUE,
                                      !.rot_log = [event |-> "ready_fail",
                                                   index |-> r.current_index]]
                   ELSE res.w
                   : res \in {use_action(w, "P", next_action.action_id, target)} })

execute_next(w, time_now) ==
    LET r == w.rotation
        next_action == r.actions[r.current_index + 1]
        target == current_target("P")
    IN  IF ~r.enabled THEN w
        ELSE IF r.current_index >= Len(r.actions) THEN w
        ELSE IF next_action.time # None /\ Val(next_action.time) > time_now THEN w
        ELSE IF target = NONE THEN [w EXCEPT !.error = TRUE]
        ELSE IF /\ next_action.condition # NONE
                /\ ~Condition(w, next_action.condition, target)
        THEN [w EXCEPT !.rotation.current_index = @ + 1,
                       !.rot_log = [event |-> "skipped", index |-> r.current_index]]
        ELSE One({ IF res.ok THEN [res.w EXCEPT !.rotation.current_index = @ + 1]
                   ELSE IF /\ is_action_offcooldown(res.w.am["P"], next_action.action_id, 0)
                           /\ res.w.am["P"].animation_lock <= 0
                           /\ ~is_casting(res.w.am["P"])
                   THEN [res.w EXCEPT !.error = TRUE,
                                      !.rot_log = [event |-> "ready_fail",
                                                   index |-> r.current_index]]
                   ELSE res.w
                   : res \in {use_action(w, "P", next_action.action_id, target)} })

(***************************************************************************)
(* Player auto-attack.                                                     *)
(***************************************************************************)
_reset_auto_attack_timer(w) ==
    [w EXCEPT !.auto_attack.timer =
        Scaled(WEAPON_DELAY, get_speed_multiplier(w, "P", "AUTO_ATTACK"))]

_deliver_auto_attack(w) ==
    IF current_target("P") # NONE
    THEN _reset_auto_attack_timer(prepare_damage(w, current_target("P"), ANIMATION_LOCK))
    ELSE w

_process_auto_attack(w, step_size) ==
    LET w1 == IF w.auto_attack.timer > 0
              THEN [w EXCEPT !.auto_attack.timer = Max(0, @ - step_size)]
              ELSE w
    IN  IF ~w.auto_attack.enabled THEN w
        ELSE IF w.auto_attack.first
        THEN IF w.current_time >= 0
             THEN [_deliver_auto_attack(w) EXCEPT !.auto_attack.first = FALSE]
             ELSE w
        ELSE IF w1.auto_attack.timer <= 0 /\ ~is_casting(w1.am["P"])
        THEN _deliver_auto_attack(w1)
        ELSE w1

(***************************************************************************)
(* Character step and calc_step_size.                                      *)
(***************************************************************************)
BattleCharacterStep(w, c, step_size) ==
    ActionManagerStep(StatusManagerStep(w, c, step_size), c, step_size)

BattleCharacterCalcStepSize(w, c) ==
    update_step_size(StatusManagerCalcStepSize(w, c), ActionManagerCalcStepSize(w.am[c]))

PlayerStep(w, step_size) ==
    One({ One({ IF w2.error THEN w2 ELSE _process_auto_attack(w2, step_size)
                : w2 \in {IF /\ w1.rotation.enabled
                             /\ ~is_casting(w1.am["P"])
                             /\ w1.am["P"].animation_lock <= 0
                          THEN execute_next(w1, w1.current_time)
                          ELSE w1} })
          : w1 \in {BattleCharacterStep(w, "P", step_size)} })

PlayerCalcStepSize(w) ==
    LET s1 == BattleCharacterCalcStepSize(w, "P")
        s2 == update_step_size(s1, RotationCalcStepSize(w))
    IN  IF w.auto_attack.enabled /\ w.auto_attack.timer > 0
        THEN update_step_size(s2, Some(w.auto_attack.timer))
        ELSE s2

(***************************************************************************)
(* Arena.                                                                  *)
(***************************************************************************)
_calc_step_size(w) ==
    LET s0 == IF Len(w.task_queue) > 0
              THEN Some(w.task_queue[1].time - w.current_time)
              ELSE None
        s1 == update_step_size(s0, PlayerCalcStepSize(w))
    IN  update_step_size(s1, BattleCharacterCalcStepSize(w, "E"))

\* a step that is not capped by the time remaining in the frame
ClampStepNoCap(step_size, rem) ==
    IF step_size = None THEN rem ELSE Val(step_size)

\* the step taken by one loop iteration of Arena.step
ClampStep(step_size, rem) ==
    IF step_size = None \/ Val(step_size) > rem THEN rem ELSE Val(step_size)

\* DoTStatus.tick that computes the damage from the stats the source has now
DoTTickLive(w, c, sid) ==
    [take_damage(w, c) EXCEPT
        !.dot_log[c].ticked = calculate_potency_damage(
                                  w, w.statuses[c][sid].source, w.statuses[c][sid].potency)]

\* DoTStatus.tick: the target takes snapshot_damage
DoTTick(w, c, sid) ==
    [take_damage(w, c) EXCEPT !.dot_log[c].ticked = w.statuses[c][sid].snapshot]

\* the status ticks of one server tick on character c
RECURSIVE TickStatuses(_, _, _)
TickStatuses(w, c, S) ==
    IF S = {} THEN w
    ELSE LET sid == CHOOSE x \in S : TRUE
             w1 == CASE w.statuses[c][sid].is_dot -> DoTTick(w, c, sid)
                     [] sid = "MEDITATE" -> add_meditation(add_kenki(w, 10))
                     [] OTHER -> w
         IN  TickStatuses([w1 EXCEPT !.hooks = Append(@, <<"tick", c, sid>>)],
                          c, S \ {sid})

server_tick(w) ==
    LET w1 == TickStatuses(w, "P", get_active_statuses(w, "P"))
        w2 == TickStatuses(w1, "E", get_active_statuses(w1, "E"))
    IN  schedule_task(w2, SERVER_TICK_INTERVAL, "server_tick", NONE)

\* Task.execute: run the callback of a task
TaskExecute(w, task) ==
    CASE task.callback = "take_damage" -> take_damage(w, task.arg)
      [] task.callback = "server_tick" -> server_tick(w)
      [] task.callback = "chain" -> schedule_task(w, 0, "noop", NONE)
      [] task.callback = "noop" -> w

(***************************************************************************)
(* The state as one record, and its write-back.                            *)
(***************************************************************************)
World ==
    [current_time |-> current_time, task_queue |-> task_queue, next_id |-> next_id,
     am |-> am, statuses |-> statuses, gauge |-> gauge, rotation |-> rotation,
     auto_attack |-> auto_attack, damage_taken |-> damage_taken,
     last_use |-> last_use, cast_log |-> cast_log, rot_log |-> rot_log,
     dot_log |-> dot_log, charge_log |-> charge_log, hooks |-> <<>>, error |-> FALSE]

Commit(w) ==
    /\ current_time' = w.current_time
    /\ task_queue' = w.task_queue
    /\ next_id' = w.next_id
    /\ am' = w.am
    /\ statuses' = w.statuses
    /\ gauge' = w.gauge
    /\ rotation' = w.rotation
    /\ auto_attack' = w.auto_attack
    /\ damage_taken' = w.damage_taken
    /\ last_use' = w.last_use
    /\ cast_log' = w.cast_log
    /\ rot_log' = w.rot_log
    /\ dot_log' = w.dot_log
    /\ charge_log' = w.charge_log

\* the rotations a player may be given (Rotation.add_action / from_dict)
EntryIf(a, t, cond) == [action_id |-> a, time |-> t, condition |-> cond]

Entry(a, t) == EntryIf(a, t, NONE)

\* Rotation.__init__ followed by one add_action per entry
NewRotation(name, acts) ==
    [name |-> name, actions |-> acts, current_index |-> 0, enabled |-> FALSE]

\* the ActionID enum: a member is written by its canonical name, .value is
\* its number and MELEE is a second name of the member ATTACK
EnumNames == ActionIDs \cup {"ATTACK", "MELEE"}

EnumMember(name) ==
    CASE name = "MELEE" -> "ATTACK"
      [] name \in EnumNames -> name
      [] OTHER -> NONE

EnumMemberName(member) == member

EnumValue(member) ==
    CASE member = "ATTACK" -> 7
      [] member = "GYOFU" -> 36963
      [] member = "HIGANBANA" -> 7489
      [] OTHER -> 0

\* Rotation.to_dict: one single-key dict per entry, the key is the name of
\* the action, the condition is reduced to a flag
to_dict(r) ==
    [name |-> r.name,
     actions |-> [i \in DOMAIN r.actions |->
                    [key |-> EnumMemberName(r.actions[i].action_id),
                     id |-> EnumValue(r.actions[i].action_id),
                     time |-> r.actions[i].time,
                     has_condition |-> r.actions[i].condition # NONE]]]

KnownName(action_entry) == EnumMember(action_entry.key) # NONE

\* from_dict that reads a time of 0 as no time
from_dictFalsyTime(data) ==
    LET known == SelectSeq(data.actions, KnownName)
    IN  NewRotation(data.name,
                    [i \in DOMAIN known |->
                        Entry(EnumMember(known[i].key),
                              IF known[i].time = Some(0) THEN None ELSE known[i].time)])

\* Rotation.from_dict: entries whose key names no ActionID are left out
from_dict(data) ==
    LET known == SelectSeq(data.actions, KnownName)
    IN  NewRotation(data.name,
                    [i \in DOMAIN known |-> Entry(EnumMember(known[i].key), known[i].time)])

Rotations ==
    { <<>>,
      <<Entry("GYOFU", None), Entry("YUKIKAZE", None), Entry("HIGANBANA", None)>>,
      <<Entry("GYOFU", Some(0)), Entry("YUKIKAZE", Some(1000))>>,
      <<Entry("MEIKYO_SHISUI", None), Entry("YUKIKAZE", None),
        Entry("HIGANBANA", None), Entry("GYOFU", Some(0))>>,
      <<EntryIf("HIGANBANA", None, "one_sen"), Entry("GYOFU", None),
        Entry("HIGANBANA", None)>> }

NoUse == [action_id |-> NONE, ok |-> FALSE, animation_lock |-> 0, is_casting |-> FALSE]

NoDoT == [applied |-> 0, ticked |-> 0]

NoCast ==
    [n |-> 0, started_at |-> 0, cast_time |-> 0, applied |-> 0, applied_at |-> 0,
     ended |-> FALSE, cancelled |-> FALSE]

NoRot == [event |-> NONE, index |-> 0]

NoExec == [id |-> -1, time |-> 0, queue_min |-> 0, queue_max |-> 0]

NoIter == [n |-> 0, step_size |-> 0, remaining_time |-> 0, bounds |-> {}]

\* the state after construction of an Arena at one of the given times, with a
\* player that is given one of the rotations; auto_attack_enabled is an
\* attribute the user may clear before the first step
(***************************************************************************)
(* xivstats.py: UniformDistribution, MixtureDistribution, DamageResult.    *)
(* A weight or probability is a whole number of millionths (PPM is 1.0);   *)
(* a mean or variance is an exact reduced fraction <<n, d>>.               *)
(***************************************************************************)
PPM == 1000000

Abs(x) == IF x < 0 THEN -x ELSE x

\* np.isclose(x, 1.0, rtol = 1e-5): |x - 1.0| <= 1e-8 + 1e-5 * 1.0
IsCloseToOne(x) == Abs(x - PPM) <= 10

RECURSIVE SumSeq(_)
SumSeq(seq) == IF seq = <<>> THEN 0 ELSE Head(seq) + SumSeq(Tail(seq))

RECURSIVE GCDSeq(_)
GCDSeq(seq) == IF seq = <<>> THEN 0 ELSE GCD(Head(seq), GCDSeq(Tail(seq)))

\* UniformDistribution(min_value, max_value); its mean is (min + max) / 2
\* and its variance (max - min) ** 2 / 12
UniformDistribution(min_value, max_value) == [min |-> min_value, max |-> max_value]

\* an exception leaves the constructor
Raised(exception) == [raised |-> exception]

\* MixtureDistribution._calculate_stats: the weights are weights[i] / total
CalculateStats(components, weights, total) ==
    LET nonzero_indices == {i \in DOMAIN weights : weights[i] > 0}
        s(i) == components[i].min + components[i].max
        d(i) == components[i].max - components[i].min
        M == SumSeq([i \in DOMAIN weights |->
                        IF i \in nonzero_indices THEN weights[i] * s(i) ELSE 0])
        V1 == SumSeq([i \in DOMAIN weights |->
                        IF i \in nonzero_indices THEN weights[i] * d(i) * d(i) ELSE 0])
        V2 == SumSeq([i \in DOMAIN weights |->
                        IF i \in nonzero_indices
                        THEN weights[i] * (s(i) * total - M) * (s(i) * total - M)
                        ELSE 0])
    IN  IF nonzero_indices = {}
        THEN [raised |-> NONE, min |-> 0, max |-> 0,
              mean |-> <<0, 1>>, var |-> <<0, 1>>]
        ELSE [raised |-> NONE,
              min |-> SetMin({components[i].min : i \in nonzero_indices}),
              max |-> -SetMin({-components[i].max : i \in nonzero_indices}),
              mean |-> Fraction(M, 2 * total),
              var |-> Fraction(V1 * total * total + 3 * V2, 12 * total * total * total)]

\* MixtureDistribution(components, weights).  Weights whose sum is not close
\* to 1.0 are divided by their sum; the division of a float by a zero sum
\* raises ZeroDivisionError.  Weights that are kept are reduced by their
\* common divisor, which leaves every weights[i] / total as it is.
MixtureDistribution(components, weights) ==
    IF Len(components) # Len(weights) THEN Raised("ValueError")
    ELSE IF ~IsCloseToOne(SumSeq(weights))
         THEN IF weights # <<>> /\ SumSeq(weights) = 0
              THEN Raised("ZeroDivisionError")
              ELSE IF weights = <<>> THEN CalculateStats(components, weights, 1)
              ELSE LET g == GCDSeq(weights)
                   IN  CalculateStats(components,
                                      [i \in DOMAIN weights |-> weights[i] \div g],
                                      SumSeq(weights) \div g)
         ELSE LET g == GCD(GCDSeq(weights), PPM)
              IN  CalculateStats(components,
                                 [i \in DOMAIN weights |-> weights[i] \div g],
                                 PPM \div g)

\* DamageResult(action_id, potency, normal_hit, critical_hit, direct_hit,
\* critical_direct_hit), each hit a tuple <<probability, min, max>>
DamageResult(normal_hit, critical_hit, direct_hit, critical_direct_hit) ==
    LET hits == <<normal_hit, critical_hit, direct_hit, critical_direct_hit>>
    IN  MixtureDistribution([i \in 1..4 |-> UniformDistribution(hits[i][2], hits[i][3])],
                            [i \in 1..4 |-> hits[i][1]])

\* Player.calculate_potency_damage, the probabilities of the four hit types
\* <<normal, critical, direct, critical direct>> in millionths; the chances
\* and bonuses are whole thousandths, as calculate_critical_hit_chance and
\* calculate_direct_hit_chance floor them, and every product is exact: the
\* rounding of the source's floats, of the order of 1e-16, is left out
HitProbabilitiesUnclamped(base_crit_chance, base_dht_chance, crit_chance_bonus, dht_chance_bonus, auto_crt, auto_dht) ==
    LET crit_chance == IF auto_crt THEN 1000 ELSE base_crit_chance + crit_chance_bonus
        dht_chance == IF auto_dht THEN 1000 ELSE base_dht_chance + dht_chance_bonus
        prob_crit == crit_chance * (1000 - dht_chance)
        prob_dht == (1000 - crit_chance) * dht_chance
        prob_crit_dht == crit_chance * dht_chance
    IN  <<PPM - prob_crit - prob_dht - prob_crit_dht, prob_crit, prob_dht, prob_crit_dht>>

HitProbabilities(base_crit_chance, base_dht_chance, crit_chance_bonus, dht_chance_bonus, auto_crt, auto_dht) ==
    LET crit_chance == IF auto_crt THEN 1000
                       ELSE Min(1000, base_crit_chance + crit_chance_bonus)
        dht_chance == IF auto_dht THEN 1000
                      ELSE Min(1000, base_dht_chance + dht_chance_bonus)
        prob_crit == crit_chance * (1000 - dht_chance)
        prob_dht == (1000 - crit_chance) * dht_chance
        prob_crit_dht == crit_chance * dht_chance
        prob_normal == PPM - prob_crit - prob_dht - prob_crit_dht
    IN  <<prob_normal, prob_crit, prob_dht, prob_crit_dht>>

\* nothing has been constructed
NoDistribution == [kind |-> "none"]

(***************************************************************************)
(* montecarlo.py: MonteCarloSimulator.  Damage samples are floating point   *)
(* numbers: an addition rounds its result, so a sum depends on the order of *)
(* its terms.  The model keeps that on a decimal float of two significant  *)
(* digits; every sample value is representable in it.                      *)
(***************************************************************************)
FloatAdd(a, b) ==
    LET x == a + b
    IN  IF x < 100 THEN x
        ELSE IF x < 1000 THEN (x \div 10) * 10
        ELSE (x \div 100) * 100

\* numpy's elementwise a + b of two arrays of one length
ArrayAdd(a, b) == [k \in DOMAIN a |-> FloatAdd(a[k], b[k])]

\* np.zeros(num_fights)
Zeros(num_fights) == [k \in 1..num_fights |-> 0]

\* array / time_seconds, elementwise, each quotient as a reduced fraction
ArrayDiv(a, time_seconds) == [k \in DOMAIN a |-> Fraction(a[k], time_seconds)]

\* the rows from index i on added to acc one after the other, in index order
RECURSIVE AddRows(_, _, _)
AddRows(rows, i, acc) ==
    IF i \notin DOMAIN rows THEN acc
    ELSE AddRows(rows, i + 1, ArrayAdd(acc, rows[i]))

\* run_standard(num_fights), samples[i] being what record i's distribution
\* returns to its sample(size = num_fights) call
run_standard(samples, num_fights, time_seconds) ==
    ArrayDiv(AddRows(samples, 0, Zeros(num_fights)), time_seconds)

\* np.sum(np.array(monte_carlo_result), axis = 0): the rows added in index
\* order, starting from row 0
SumAxis0(rows) == AddRows(rows, 1, rows[0])

\* the rows added in the order given by the sequence of indices order
RECURSIVE AddInOrder(_, _, _)
AddInOrder(rows, order, acc) ==
    IF order = <<>> THEN acc
    ELSE AddInOrder(rows, Tail(order), ArrayAdd(acc, rows[Head(order)]))

\* monte_carlo_result.append(samples): the slot is the next free one
StoreAtNextFree(monte_carlo_result, index, samples) ==
    LET free == {i \in DOMAIN monte_carlo_result : monte_carlo_result[i] = None}
    IN  [monte_carlo_result EXCEPT ![SetMin(free)] = samples]

\* monte_carlo_result[index] = samples
StoreResult(monte_carlo_result, index, samples) ==
    [monte_carlo_result EXCEPT ![index] = samples]

\* sample_distribution((record, n_fights, record_index, total_records)),
\* samples being what record.damage.distrib.sample(size = n_fights) returns
sample_distribution(samples, record_index) == <<record_index, samples>>

\* no simulator has been constructed
NoSimulation == [phase |-> "none"]

InitOf(times, auto_attack_enabled, rotations) ==
    /\ current_time \in times
    /\ start_time = current_time
    /\ task_queue = <<>>
    /\ pc = "idle"
    /\ remaining_time = 0
    /\ am = [c \in Chars |-> ActionManagerInit(IF c = "P" THEN CooldownGroups ELSE {})]
    /\ statuses = [c \in Chars |-> [sid \in {} |-> TendoEffect]]
    /\ gauge = SamuraiGaugeInit
    /\ \E acts \in rotations :
          rotation = [name |-> "rotation", actions |-> acts, current_index |-> 0,
                      enabled |-> acts # <<>>]
    /\ auto_attack = [enabled |-> auto_attack_enabled, first |-> TRUE, timer |-> 0]
    /\ damage_taken = [c \in Chars |-> 0]
    /\ server_tick_on = FALSE
    /\ next_id = 0
    /\ calls = 0
    /\ sum_delta = 0
    /\ last_exec = NoExec
    /\ tie_log = <<>>
    /\ last_iter = NoIter
    /\ last_use = NoUse
    /\ tick = 0
    /\ cast_log = NoCast
    /\ rot_log = NoRot
    /\ dot_log = [c \in Chars |-> NoDoT]
    /\ status_calls = 0
    /\ charge_log = <<>>
    /\ mc = NoSimulation
    /\ distrib = NoDistribution

Init == InitOf(StartTimes, TRUE, Rotations)

(***************************************************************************)
(* Calls made on the idle Arena by its user.                               *)
(***************************************************************************)
\* Arena.step(frame_delta): enter the loop
ArenaStep(frame_delta) ==
    /\ pc = "idle"
    /\ calls < MaxCalls
    /\ calls' = calls + 1
    /\ pc' = "events"
    /\ remaining_time' = frame_delta
    /\ sum_delta' = sum_delta + frame_delta
    /\ UNCHANGED <<mc, distrib, current_time, task_queue, am, statuses, gauge, rotation,
                   auto_attack, damage_taken, server_tick_on, next_id, start_time,
                   last_exec, tie_log, last_iter, last_use, tick, cast_log,
                   rot_log, dot_log, status_calls, charge_log>>

\* Arena.schedule_task(delay, callback) by the user
ScheduleTask(delay, callback) ==
    /\ pc = "idle"
    /\ next_id < MaxTasks
    /\ Commit(schedule_task(World, delay, callback, NONE))
    /\ UNCHANGED <<mc, distrib, pc, remaining_time, server_tick_on, calls, status_calls, start_time, sum_delta,
                   last_exec, tie_log, last_iter, tick>>

\* Arena.start_server_tick()
StartServerTick ==
    /\ pc = "idle"
    /\ ~server_tick_on
    /\ server_tick_on' = TRUE
    /\ Commit(schedule_task(World, 0, "server_tick", NONE))
    /\ UNCHANGED <<mc, distrib, pc, remaining_time, calls, status_calls, start_time, sum_delta,
                   last_exec, tie_log, last_iter, tick>>

\* player.action_manager.use_action(action_id, target) by the user
UseAction(action_id) ==
    /\ pc = "idle"
    /\ Commit(use_action(World, "P", action_id, current_target("P")).w)
    /\ UNCHANGED <<mc, distrib, pc, remaining_time, server_tick_on, calls, status_calls, start_time, sum_delta,
                   last_exec, tie_log, last_iter, tick>>

\* player.action_manager.cancel_casting() by the user
CancelCasting ==
    /\ pc = "idle"
    /\ is_casting(am["P"])
    /\ Commit([cancel_casting(World, "P") EXCEPT !.cast_log.cancelled = TRUE,
                                                  !.cast_log.ended = TRUE])
    /\ UNCHANGED <<mc, distrib, pc, remaining_time, server_tick_on, calls, status_calls, start_time, sum_delta,
                   last_exec, tie_log, last_iter, tick>>

\* the statuses a user applies: <<target, kind, status object>>
StatusInputs(w) ==
    { <<"P", "MEIKYO", MeikyoShisuiEffect>>,
      <<"P", "MEIKYO", StackableStatus(10000, "E", 5, 5)>>,
      <<"P", "MEIKYO", StackableStatus(10000, "E", 1, 1)>>,
      <<"P", "FUGETSU", FugetsuEffect>>,
      <<"P", "BUFF", BuffStatus(15000, "P", 105)>>,
      <<"E", "HIGANBANA", HiganbanaDoT(w)>> }

\* character.add_status(status) by the user
AddStatus(inp) ==
    /\ pc = "idle"
    /\ status_calls < MaxStatusCalls
    /\ status_calls' = status_calls + 1
    /\ Commit(add_status(World, inp[1], inp[2], inp[3]))
    /\ UNCHANGED <<mc, distrib, pc, remaining_time, server_tick_on, calls, start_time, sum_delta,
                   last_exec, tie_log, last_iter, tick>>

\* character.remove_status(status_id) by the user
RemoveStatus(c, sid) ==
    /\ pc = "idle"
    /\ status_calls < MaxStatusCalls
    /\ status_calls' = status_calls + 1
    /\ sid \in DOMAIN statuses[c]
    /\ Commit(remove_status(World, c, sid))
    /\ UNCHANGED <<mc, distrib, pc, remaining_time, server_tick_on, calls, start_time, sum_delta,
                   last_exec, tie_log, last_iter, tick>>

\* consume_stack() on the player's Meikyo Shisui by the user
ConsumeStack ==
    /\ pc = "idle"
    /\ status_calls < MaxStatusCalls
    /\ status_calls' = status_calls + 1
    /\ has_status(World, "P", "MEIKYO", 0)
    /\ Commit(consume_meikyo(World, "P"))
    /\ UNCHANGED <<mc, distrib, pc, remaining_time, server_tick_on, calls, start_time, sum_delta,
                   last_exec, tie_log, last_iter, tick>>

(***************************************************************************)
(* The loop of Arena.step.                                                 *)
(***************************************************************************)
\* a due test that leaves a task firing exactly now in the queue
TaskDueStrict == Len(task_queue) > 0 /\ task_queue[1].time < current_time

TaskDue == Len(task_queue) > 0 /\ task_queue[1].time <= current_time

QueueMin(q) == SetMin({q[i].time : i \in DOMAIN q})

QueueMax(q) == CHOOSE x \in {q[i].time : i \in DOMAIN q} :
                   \A i \in DOMAIN q : q[i].time <= x

\* _process_events: execute the head task, then pop the heap
ExecTask ==
    /\ pc = "events"
    /\ TaskDue
    /\ LET event == task_queue[1]
           w1 == TaskExecute(World, event)
       IN  /\ Commit([w1 EXCEPT !.task_queue = HeapPop(w1.task_queue)])
           /\ last_exec' = [id |-> event.id, time |-> event.time,
                            queue_min |-> QueueMin(task_queue),
                            queue_max |-> QueueMax(task_queue)]
           /\ tie_log' = IF last_exec.id # -1 /\ last_exec.time = event.time
                         THEN Append(tie_log, event.id)
                         ELSE <<event.id>>
    /\ tick' = 1 - tick
    /\ UNCHANGED <<mc, distrib, pc, remaining_time, server_tick_on, calls, status_calls, start_time, sum_delta, last_iter>>

\* the loop ends: no task is due and no time remains
StepReturn ==
    /\ pc = "events"
    /\ ~TaskDue
    /\ remaining_time <= 0
    /\ pc' = "idle"
    /\ tick' = 0
    /\ UNCHANGED <<mc, distrib, current_time, task_queue, remaining_time, am, statuses, gauge,
                   rotation, auto_attack, damage_taken, server_tick_on, next_id, calls,
                   start_time, sum_delta, last_exec, tie_log, last_iter, last_use,
                   cast_log, rot_log, dot_log, status_calls, charge_log>>

\* every deadline pending in world w, as time from now
PendingBounds(w) ==
    {w.task_queue[i].time - w.current_time : i \in DOMAIN w.task_queue}
    \cup UNION {{w.statuses[c][sid].duration : sid \in DOMAIN w.statuses[c]} :
                  c \in Chars}
    \cup UNION {{remaining(w.am[c].cooldowns[g]) :
                      g \in {x \in DOMAIN w.am[c].cooldowns :
                                is_active(w.am[c].cooldowns[x])}} : c \in Chars}
    \cup {w.am[c].animation_lock : c \in {x \in Chars : w.am[x].animation_lock > 0}}
    \cup {IF w.am[c].casting_apply_callback # NONE
          THEN Max(0, w.am[c].casting_time_max - w.am[c].casting_time - APPLY_THRESHOLD)
          ELSE w.am[c].casting_time_max - w.am[c].casting_time :
              c \in {x \in Chars : is_casting(w.am[x])}}
    \cup {w.am[c].last_combo_time :
              c \in {x \in Chars : w.am[x].last_combo_action_id # NONE}}
    \cup (IF w.auto_attack.enabled /\ w.auto_attack.timer > 0
          THEN {w.auto_attack.timer} ELSE {})
    \cup (IF /\ w.rotation.enabled
             /\ w.rotation.current_index < Len(w.rotation.actions)
             /\ w.rotation.actions[w.rotation.current_index + 1].time # None
          THEN {Val(w.rotation.actions[w.rotation.current_index + 1].time) - w.current_time}
          ELSE {})

\* one iteration: choose the step, advance the clock, step every character
Advance ==
    /\ pc = "events"
    /\ ~TaskDue
    /\ remaining_time > 0
    /\ \E step_size \in {ClampStep(_calc_step_size(World), remaining_time)} :
       \E w1 \in {PlayerStep([World EXCEPT !.current_time = @ + step_size], step_size)} :
       \E w2 \in {IF w1.error THEN w1 ELSE BattleCharacterStep(w1, "E", step_size)} :
           /\ remaining_time' = remaining_time - step_size
           /\ Commit(w2)
           /\ pc' = IF w2.error THEN "error" ELSE "events"
           /\ last_iter' = [n |-> 1, step_size |-> step_size,
                            remaining_time |-> remaining_time,
                            bounds |-> PendingBounds(World)]
    /\ tick' = 1 - tick
    /\ UNCHANGED <<mc, distrib, server_tick_on, calls, status_calls, start_time, sum_delta, last_exec, tie_log>>

\* the player driven by its rotation and by direct use_action calls
Next ==
    \/ \E fd \in FrameDeltas : ArenaStep(fd)
    \/ StartServerTick
    \/ \E a \in SamuraiActions : UseAction(a)
    \/ CancelCasting
    \/ ExecTask
    \/ StepReturn
    \/ Advance

Spec == Init /\ [][Next]_vars

\* the task queue driven by schedule_task calls of the user; no rotation
InitQueue == Init /\ rotation.actions = <<>>

NextQueue ==
    \/ \E fd \in FrameDeltas : ArenaStep(fd)
    \/ \E d \in TaskDelays : ScheduleTask(d, "noop")
    \/ ScheduleTask(0, "chain")
    \/ StartServerTick
    \/ ExecTask
    \/ StepReturn
    \/ Advance

SpecQueue == InitQueue /\ [][NextQueue]_vars

\* characters whose statuses are applied, removed and consumed by the user
NextStatus ==
    \/ \E fd \in StatusDeltas : ArenaStep(fd)
    \/ StartServerTick
    \/ \E inp \in StatusInputs(World) : AddStatus(inp)
    \/ \E c \in Chars : \E sid \in StatusIDs : RemoveStatus(c, sid)
    \/ ConsumeStack
    \/ ExecTask
    \/ StepReturn
    \/ Advance

\* the player has no rotation and its auto_attack_enabled is set to False
InitStatus == InitOf(StartTimes, FALSE, {<<>>})

SpecStatus == InitStatus /\ [][NextStatus]_vars

\* the charge scenario: the player uses "CHARGED" between Arena.step calls
NextCharges ==
    \/ \E fd \in ChargeDeltas : ArenaStep(fd)
    \/ StartServerTick
    \/ UseAction("CHARGED")
    \/ ExecTask
    \/ StepReturn
    \/ Advance

InitCharges == InitOf({0}, FALSE, {<<>>})

SpecCharges == InitCharges /\ [][NextCharges]_vars

\* the entries and rotations a user writes, saves and reloads
RoundTripEntries ==
    {EntryIf(a, t, cond) : a \in {"GYOFU", "ATTACK"}, t \in {None, Some(0), Some(1000)},
                           cond \in {NONE, "one_sen"}}

RoundTripRotations ==
    UNION {[1..k -> RoundTripEntries] : k \in 0..MaxEntries}

\* player.set_rotation(rotation) with a rotation built by the user
SetRotation(name, acts) ==
    /\ pc = "idle"
    /\ Commit([World EXCEPT !.rotation = NewRotation(name, acts)])
    /\ UNCHANGED <<mc, distrib, pc, remaining_time, server_tick_on, calls, status_calls, start_time,
                   sum_delta, last_exec, tie_log, last_iter, tick>>

\* player.set_rotation(Rotation.from_dict(player.rotation.to_dict()))
SaveLoad ==
    /\ pc = "idle"
    /\ Commit([World EXCEPT !.rotation = from_dict(to_dict(rotation))])
    /\ UNCHANGED <<mc, distrib, pc, remaining_time, server_tick_on, calls, status_calls, start_time,
                   sum_delta, last_exec, tie_log, last_iter, tick>>

NextRoundTrip ==
    \/ \E name \in {"opener", "burst"} : \E acts \in RoundTripRotations :
           SetRotation(name, acts)
    \/ SaveLoad

InitRoundTrip == InitOf({0}, FALSE, {<<>>})

SpecRoundTrip == InitRoundTrip /\ [][NextRoundTrip]_vars

(***************************************************************************)
(* MonteCarloSimulator(damage_records, time_seconds).run_parallel(n):      *)
(* one future per record; the pool's workers finish in any order.          *)
(***************************************************************************)
\* what a distribution's sample(size = num_fights) may return
Samples(num_fights) == [1..num_fights -> SampleValues]

\* run_parallel up to the end of the submit loop
RunParallel(n_records, num_fights, time_seconds) ==
    /\ pc = "idle"
    /\ mc.phase = "none"
    /\ mc' = [phase |-> "sampling",
              n_records |-> n_records,
              num_fights |-> num_fights,
              time_seconds |-> time_seconds,
              futures |-> [i \in 0..(n_records - 1) |->
                              [state |-> "PENDING", result |-> None]],
              monte_carlo_result |-> [i \in 0..(n_records - 1) |-> None],
              fills |-> [i \in 0..(n_records - 1) |-> 0],
              order |-> <<>>,
              result |-> None]
    /\ UNCHANGED <<arena_vars, distrib>>

\* a worker process returns from sample_distribution for record i
WorkerDone(i) ==
    /\ mc.phase = "sampling"
    /\ i \in DOMAIN mc.futures
    /\ mc.futures[i].state = "PENDING"
    /\ \E samples \in Samples(mc.num_fights) :
          mc' = [mc EXCEPT !.futures[i] =
                    [state |-> "FINISHED", result |-> sample_distribution(samples, i)]]
    /\ UNCHANGED <<arena_vars, distrib>>

\* one iteration of the loop over as_completed(futures), for a future that
\* has finished and has not been yielded yet
Collect(i) ==
    /\ mc.phase = "sampling"
    /\ i \in DOMAIN mc.futures
    /\ mc.futures[i].state = "FINISHED"
    /\ \E index \in {mc.futures[i].result[1]} : \E samples \in {mc.futures[i].result[2]} :
          mc' = [mc EXCEPT !.futures[i].state = "YIELDED",
                           !.monte_carlo_result =
                               StoreResult(mc.monte_carlo_result, index, samples),
                           !.fills[index] = @ + 1,
                           !.order = Append(@, index)]
    /\ UNCHANGED <<arena_vars, distrib>>

\* as_completed is exhausted, the pool is closed: the reduction
Reduce ==
    /\ mc.phase = "sampling"
    /\ \A i \in DOMAIN mc.futures : mc.futures[i].state = "YIELDED"
    /\ mc' = [mc EXCEPT !.phase = "done",
                        !.result = ArrayDiv(SumAxis0(mc.monte_carlo_result),
                                            mc.time_seconds)]
    /\ UNCHANGED <<arena_vars, distrib>>

NextMonteCarlo ==
    \/ \E n \in 1..MaxRecords : \E num_fights \in NumFights : \E t \in TimeSeconds :
           RunParallel(n, num_fights, t)
    \/ \E i \in 0..(MaxRecords - 1) : WorkerDone(i)
    \/ \E i \in 0..(MaxRecords - 1) : Collect(i)
    \/ Reduce

InitMonteCarlo == InitOf({0}, FALSE, {<<>>})

SpecMonteCarlo == InitMonteCarlo /\ [][NextMonteCarlo]_vars

(***************************************************************************)
(* Distributions constructed by the user of xivstats, one in a behaviour.   *)
(***************************************************************************)
\* the component distributions and weights a caller may pass
Components ==
    {UniformDistribution(0, 0), UniformDistribution(1, 3), UniformDistribution(4, 6)}

Weights == {0, 250000, 500000, 1000000}

\* MixtureDistribution(components, weights)
NewMixture(components, weights) ==
    /\ pc = "idle"
    /\ distrib.kind = "none"
    /\ distrib' = [kind |-> "mixture", components |-> components, weights |-> weights,
                   value |-> MixtureDistribution(components, weights)]
    /\ UNCHANGED <<arena_vars, mc>>

\* DamageResult(action_id, potency, normal_hit, critical_hit, direct_hit,
\* critical_direct_hit)
NewDamageResult(normal_hit, critical_hit, direct_hit, critical_direct_hit) ==
    /\ pc = "idle"
    /\ distrib.kind = "none"
    /\ distrib' = [kind |-> "damage",
                   components |-> <<UniformDistribution(normal_hit[2], normal_hit[3]),
                                    UniformDistribution(critical_hit[2], critical_hit[3]),
                                    UniformDistribution(direct_hit[2], direct_hit[3]),
                                    UniformDistribution(critical_direct_hit[2],
                                                        critical_direct_hit[3])>>,
                   weights |-> <<normal_hit[1], critical_hit[1], direct_hit[1],
                                 critical_direct_hit[1]>>,
                   value |-> DamageResult(normal_hit, critical_hit, direct_hit,
                                          critical_direct_hit)]
    /\ UNCHANGED <<arena_vars, mc>>

NextMixture ==
    \/ \E k \in 0..MaxComponents : \E l \in {k, k + 1} :
           \E components \in [1..k -> Components] : \E weights \in [1..l -> Weights] :
               NewMixture(components, weights)
    \/ \E p \in [1..4 -> {0, 500000}] :
           NewDamageResult(<<p[1], 4, 6>>, <<p[2], 6, 9>>, <<p[3], 5, 7>>, <<p[4], 7, 11>>)

InitMixture == InitOf({0}, FALSE, {<<>>})

SpecMixture == InitMixture /\ [][NextMixture]_vars

\* the chances of a gearset (StatCalculator, never negative) and the sums of
\* the bonuses of the active statuses (none is negative), in thousandths
BaseChances == {0, 59, 462, 1200}

ChanceBonuses == {0, 100, 1000}

\* player.calculate_potency_damage(action_id, potency, damage_type, auto_crt,
\* auto_dht) for a player of the given chances and bonuses
CalculatePotencyDamage(base_crit_chance, base_dht_chance, crit_chance_bonus, dht_chance_bonus, auto_crt, auto_dht) ==
    /\ pc = "idle"
    /\ distrib.kind = "none"
    /\ distrib' = [kind |-> "potency",
                   crit_chance |-> base_crit_chance + crit_chance_bonus,
                   dht_chance |-> base_dht_chance + dht_chance_bonus,
                   auto_crt |-> auto_crt,
                   auto_dht |-> auto_dht,
                   weights |-> HitProbabilities(base_crit_chance, base_dht_chance,
                                                crit_chance_bonus, dht_chance_bonus,
                                                auto_crt, auto_dht)]
    /\ UNCHANGED <<arena_vars, mc>>

NextHitTypes ==
    \E base_crit_chance \in BaseChances : \E base_dht_chance \in BaseChances :
        \E crit_chance_bonus \in ChanceBonuses : \E dht_chance_bonus \in ChanceBonuses :
            \E auto_crt \in BOOLEAN : \E auto_dht \in BOOLEAN :
                CalculatePotencyDamage(base_crit_chance, base_dht_chance,
                                       crit_chance_bonus, dht_chance_bonus,
                                       auto_crt, auto_dht)

InitHitTypes == InitOf({0}, FALSE, {<<>>})

SpecHitTypes == InitHitTypes /\ [][NextHitTypes]_vars

\* speed statuses put on the player before the first Arena.step call, actions
\* used by hand between the calls
SpeedInputs ==
    { <<"P", "FUKA", FukaEffect>>, <<"P", "HASTE", HasteBuff>>, <<"P", "SWIFT", SwiftBuff>> }

AddSpeedStatus(inp) ==
    /\ calls = 0
    /\ inp[2] \notin DOMAIN statuses["P"]
    /\ AddStatus(inp)

\* a GCD action and an ability with two charges
SpeedActions == {"GYOFU", "MEIKYO_SHISUI"}

NextSpeed ==
    \/ \E fd \in SpeedDeltas : ArenaStep(fd)
    \/ \E inp \in SpeedInputs : AddSpeedStatus(inp)
    \/ \E a \in SpeedActions : UseAction(a)
    \/ ExecTask
    \/ StepReturn
    \/ Advance

InitSpeed == InitOf({0}, FALSE, {<<>>})

SpecSpeed == InitSpeed /\ [][NextSpeed]_vars

\* the combo scenario: Gyofu, Yukikaze and Gyofu again, which opens a combo
\* window of COMBO_TIME at 5000, then the 1300 ms cast of Higanbana at a time
\* given by the rotation, early in the combo window or near its end
ComboCastTimes == {10000, 33000, 34000}

ComboRotations ==
    { <<Entry("GYOFU", Some(0)), Entry("YUKIKAZE", None), Entry("GYOFU", None),
        Entry("HIGANBANA", Some(t))>> : t \in ComboCastTimes }

ComboDeltas == {10000, 25000, 40000}

NextCombo ==
    \/ \E fd \in ComboDeltas : ArenaStep(fd)
    \/ StartServerTick
    \/ ExecTask
    \/ StepReturn
    \/ Advance

InitCombo == InitOf({0}, FALSE, ComboRotations)

SpecCombo == InitCombo /\ [][NextCombo]_vars

\* rotations with an entry for Hakaze, an ActionID that
\* register_samurai_actions does not register with the player
StallRotations ==
    { <<Entry("GYOFU", None), Entry("HAKAZE", None), Entry("YUKIKAZE", None)>>,
      <<Entry("MEIKYO_SHISUI", Some(0)), Entry("GYOFU", None),
        Entry("HAKAZE", Some(1000)), Entry("YUKIKAZE", None)>> }

NextStall ==
    \/ \E fd \in FrameDeltas : ArenaStep(fd)
    \/ StartServerTick
    \/ ExecTask
    \/ StepReturn
    \/ Advance

InitStall ==
    \E auto_attack_enabled \in BOOLEAN : InitOf({0}, auto_attack_enabled, StallRotations)

SpecStall == InitStall /\ [][NextStall]_vars

\* the Kenki scenario: Gyofu (5 Kenki) and Yukikaze (15 Kenki in the combo)
\* in turn, one global cooldown after the other
KenkiRotation ==
    <<Entry("GYOFU", Some(0)), Entry("YUKIKAZE", None), Entry("GYOFU", None),
      Entry("YUKIKAZE", None), Entry("GYOFU", None), Entry("YUKIKAZE", None),
      Entry("GYOFU", None), Entry("YUKIKAZE", None), Entry("GYOFU", None),
      Entry("YUKIKAZE", None), Entry("GYOFU", None), Entry("YUKIKAZE", None)>>

KenkiDeltas == {2500, 10000, 15000}

NextKenki ==
    \/ \E fd \in KenkiDeltas : ArenaStep(fd)
    \/ StartServerTick
    \/ ExecTask
    \/ StepReturn
    \/ Advance

InitKenki ==
    \E auto_attack_enabled \in BOOLEAN : InitOf({0}, auto_attack_enabled, {KenkiRotation})

SpecKenki == InitKenki /\ [][NextKenki]_vars

\* the Potion scenario: the user presses Enpi, Hissatsu: Yaten and the Potion
\* between Arena.step calls
PotionDeltas == {700, 2500, 10000}

NextPotion ==
    \/ \E fd \in PotionDeltas : ArenaStep(fd)
    \/ \E a \in EnpiActions \cup {"POTION"} : UseAction(a)
    \/ StartServerTick
    \/ ExecTask
    \/ StepReturn
    \/ Advance

InitPotion == InitOf({0}, FALSE, {<<>>})

SpecPotion == InitPotion /\ [][NextPotion]_vars

\* the recast scenario: Gyofu (recast 2500, one charge) first at time 0 and
\* then whenever the rotation can use it, more entries than the window needs
RecastRotation ==
    <<Entry("GYOFU", Some(0)), Entry("GYOFU", None), Entry("GYOFU", None),
      Entry("GYOFU", None), Entry("GYOFU", None), Entry("GYOFU", None),
      Entry("GYOFU", None)>>

\* Arena.step calls that stay inside the window
RecastStep(frame_delta) ==
    /\ sum_delta + frame_delta <= Window
    /\ ArenaStep(frame_delta)

NextRecast ==
    \/ \E fd \in RecastDeltas : RecastStep(fd)
    \/ StartServerTick
    \/ ExecTask
    \/ StepReturn
    \/ Advance

InitRecast ==
    \E auto_attack_enabled \in BOOLEAN : InitOf({0}, auto_attack_enabled, {RecastRotation})

SpecRecast == InitRecast /\ [][NextRecast]_vars

\* a step of the loop of the running Arena.step call: ExecTask and Advance
\* flip tick and stay in the call (or raise), StepReturn leaves the call
LoopStep ==
    /\ pc = "events"
    /\ \/ tick' = 1 - tick /\ pc' \in {"events", "error"}
       \/ tick' = 0 /\ pc' = "idle"

\* the same program where a call of Arena.step that has been entered keeps
\* running: the interpreter goes on executing the loop
SpecLive == Init /\ [][Next]_vars /\ WF_<<pc, tick>>(LoopStep)

(***************************************************************************)
(* Properties.                                                             *)
(***************************************************************************)
\* C1: once the step calls have returned, current_time is the start time
\* plus the sum of the frame_delta arguments; a call never overshoots.
ClockIsSumOfDeltas ==
    /\ pc = "idle" => current_time = start_time + sum_delta
    /\ pc = "events" => /\ remaining_time >= 0
                        /\ current_time + remaining_time = start_time + sum_delta

ClockIsSumOfDeltasWitness ==
    /\ pc = "idle"
    /\ calls >= 2
    /\ sum_delta > 1000
    /\ last_iter.n > 0
    /\ last_iter.step_size > 0
    /\ last_iter.step_size \notin FrameDeltas

\* C2: every Arena.step call runs to completion: once the loop is entered
\* the call eventually returns (or raises).
StepTerminates == (pc = "events") ~> (pc \in {"idle", "error"})

\* C3: the step size chosen in an iteration of the loop is never negative.
StepSizeNonNegative == last_iter.n > 0 => last_iter.step_size >= 0

\* C4: at the moment Arena.step returns, no task with fire time at or
\* before current_time remains in the queue.
NoDueTaskAtReturn ==
    [][pc = "events" /\ pc' = "idle"
          => \A i \in DOMAIN task_queue' : task_queue'[i].time > current_time']_vars

NoDueTaskAtReturnWitness ==
    /\ pc = "idle"
    /\ calls > 0
    /\ last_exec.id # -1
    /\ Len(tie_log) >= 2
    /\ Len(task_queue) > 0

\* C5: tasks with the same fire time are executed in the order in which
\* they were scheduled (task ids are handed out in scheduling order).
TiesInInsertionOrder ==
    \A i, j \in DOMAIN tie_log : i < j => tie_log[i] < tie_log[j]

\* C6: a task that is executed has the smallest fire time of all tasks
\* queued at that moment, so due tasks run in non-decreasing time order.
ExecutedInTimeOrder == last_exec.id # -1 => last_exec.time <= last_exec.queue_min

ExecutedInTimeOrderWitness ==
    /\ last_exec.id # -1
    /\ last_exec.time < last_exec.queue_max
    /\ Len(task_queue) >= 2

CastStateInRange ==
    \A c \in Chars :
        /\ am[c].animation_lock >= 0
        /\ 0 <= am[c].casting_time
        /\ am[c].casting_time <= am[c].casting_time_max

\* C9: a cooldown group with total > 0 has 0 <= time_elapsed < total.
CooldownInRange ==
    \A c \in Chars : \A g \in DOMAIN am[c].cooldowns :
        am[c].cooldowns[g].total > 0
            => /\ 0 <= am[c].cooldowns[g].time_elapsed
               /\ am[c].cooldowns[g].time_elapsed < am[c].cooldowns[g].total

\* C10: a character is locked exactly while animation_lock > 0 or a cast
\* is in progress, and use_action never succeeds on a locked character.
NoUseWhileLocked ==
    /\ \A c \in Chars :
           is_locked(am[c], 0) <=> (am[c].animation_lock > 0 \/ is_casting(am[c]))
    /\ last_use.ok => last_use.animation_lock <= 0 /\ ~last_use.is_casting

NoUseWhileLockedWitness ==
    /\ last_use.ok
    /\ last_use.action_id = "HIGANBANA"
    /\ is_casting(am["P"])
    /\ is_locked(am["P"], 0)

\* C11: a registered action is off cooldown exactly when its primary group
\* has a charge available (the group is not running, or time_elapsed +
\* tolerance has reached total / max_charges) and its secondary group, if it
\* has one, is satisfied (not running, or remaining <= tolerance).
OffCooldownIffChargeAvailable ==
    \A a \in ActionIDs : \A tol \in Tolerances :
        LET cd == am["P"].cooldowns
            prim == cd[cooldown_group(a)]
            sec == cd[additional_cooldown_group(a)]
        IN  is_action_offcooldown(am["P"], a, tol)
            <=> /\ \/ ~(prim.total > 0 /\ 0 <= prim.time_elapsed
                                       /\ prim.time_elapsed < prim.total)
                   \/ (prim.time_elapsed + tol) * max_charges(a) >= prim.total
                /\ additional_cooldown_group(a) # 0
                      => \/ ~(sec.total > 0 /\ 0 <= sec.time_elapsed
                                            /\ sec.time_elapsed < sec.total)
                         \/ sec.total - sec.time_elapsed <= tol

OffCooldownIffChargeAvailableWitness ==
    /\ am["P"].cooldowns[13].total = 0
    /\ am["P"].cooldowns[RECAST_GROUP_GCD].total > 0
    /\ ~is_action_offcooldown(am["P"], "MEDITATE", 0)
    /\ is_action_offcooldown(am["P"], "MEDITATE", 1300)
    /\ am["P"].cooldowns[19].total > 0
    /\ is_action_offcooldown(am["P"], "MEIKYO_SHISUI", 0)

\* C12: for the cast begun last, on_apply is called at most once, exactly
\* max(0, cast_time - 400) ms after the cast began, and a cast that has
\* ended without being cancelled has had its on_apply call.
CastAppliesOnce ==
    /\ cast_log.applied <= 1
    /\ cast_log.applied = 1
          => cast_log.applied_at = cast_log.started_at
                                     + (IF cast_log.cast_time - 400 > 0
                                        THEN cast_log.cast_time - 400 ELSE 0)
    /\ cast_log.ended /\ ~cast_log.cancelled => cast_log.applied = 1

\* C13: a use_action call that returns False (the character is locked, the
\* action is on cooldown, or its precondition is false) leaves the cooldown
\* groups, cast state, animation lock, combo state, statuses, gauge and
\* task queue as they were.
FailedUseHasNoEffect ==
    \A a \in ActionIDs :
        LET r == use_action(World, "P", a, current_target("P"))
        IN  ~r.ok => /\ r.w.am = am
                     /\ r.w.statuses = statuses
                     /\ r.w.gauge = gauge
                     /\ r.w.task_queue = task_queue

\* an unlocked player for whom GYOFU fails on its cooldown while MEDITATE
\* fails on its secondary group, with tasks queued and statuses present
FailedUseHasNoEffectWitness ==
    /\ ~is_locked(am["P"], 0)
    /\ ~use_action(World, "P", "GYOFU", current_target("P")).ok
    /\ ~is_action_offcooldown(am["P"], "GYOFU", 0)
    /\ ~use_action(World, "P", "MEDITATE", current_target("P")).ok
    /\ use_action(World, "P", "MEIKYO_SHISUI", current_target("P")).ok
    /\ Len(task_queue) > 0
    /\ DOMAIN statuses["P"] # {}

\* C14: when the rotation attempts its next entry and use_action fails
\* although the action is off cooldown and the player is neither animation
\* locked nor casting, execute_next raises and leaves the index where it was.
ReadyButFailedIsFatal ==
    rot_log.event = "ready_fail"
        => /\ pc = "error"
           /\ rotation.current_index = rot_log.index

ReadyButFailedIsFatalWitness ==
    /\ rot_log.event = "ready_fail"
    /\ Attempted(World, current_time)
    /\ rotation.current_index > 0
    /\ ~use_action(World, "P", rotation.actions[rotation.current_index + 1].action_id,
                   current_target("P")).ok
    /\ is_action_offcooldown(am["P"],
                             rotation.actions[rotation.current_index + 1].action_id, 0)
    /\ ~is_locked(am["P"], 0)

\* C15 as stated: an entry whose action's own precondition is false when it
\* is attempted (the action is off cooldown and the player unlocked) does
\* not abort the run, and the rotation moves on to the next entry.
PreconditionMissIsSkipped ==
    /\ rot_log.event = "ready_fail"
    /\ PvEActionCanUse(World, rotation.actions[rot_log.index + 1].action_id, "P", 0)
    /\ ~can_use(World, rotation.actions[rot_log.index + 1].action_id, "P",
                current_target("P"), 0)
    => /\ pc # "error"
       /\ rotation.current_index = rot_log.index + 1

\* C15 amended: the miss that is absorbed is the condition callable of the
\* entry: an entry whose condition returns False when it is attempted is
\* skipped, the rotation moves past it and the run does not abort on it.
ConditionMissIsSkipped ==
    rot_log.event = "skipped"
        => /\ rotation.actions[rot_log.index + 1].condition # NONE
           /\ rotation.current_index > rot_log.index
           /\ pc # "error"

ConditionMissIsSkippedWitness ==
    /\ rot_log.event = "skipped"
    /\ rotation.actions[rot_log.index + 1].action_id = "HIGANBANA"
    /\ rotation.current_index = rot_log.index + 2
    /\ last_use.action_id = "GYOFU"
    /\ cast_log.n = 0
    /\ pc = "events"

\* C16: add_status on a kind already present keeps the existing instance
\* (its time_elapsed, max_stacks and the other fields stay), overwrites its
\* source, duration and initial_duration by the incoming values, sets its
\* stacks to min(max_stacks, incoming stacks) and fires no on_apply; on a new
\* kind the incoming status is inserted and on_apply fires exactly once; the
\* other statuses of the character are not touched.
AddStatusRefreshesOrInserts ==
    \A inp \in StatusInputs(World) :
        LET c == inp[1]
            sid == inp[2]
            incoming == inp[3]
            w == add_status(World, c, sid, incoming)
            new == w.statuses[c][sid]
        IN  /\ DOMAIN w.statuses[c] = DOMAIN statuses[c] \cup {sid}
            /\ \A x \in DOMAIN statuses[c] \ {sid} : w.statuses[c][x] = statuses[c][x]
            /\ IF sid \in DOMAIN statuses[c]
               THEN LET old == statuses[c][sid]
                    IN  /\ new.time_elapsed = old.time_elapsed
                        /\ new.has_stacks = old.has_stacks
                        /\ new.max_stacks = old.max_stacks
                        /\ new.damage_multiplier = old.damage_multiplier
                        /\ new.is_dot = old.is_dot
                        /\ new.potency = old.potency
                        /\ new.source = incoming.source
                        /\ new.duration = incoming.duration
                        /\ new.initial_duration = incoming.initial_duration
                        /\ new.stacks = Min(old.max_stacks, incoming.stacks)
                        /\ w.hooks = <<>>
               ELSE /\ new = incoming
                    /\ w.hooks = << <<"on_apply", c, sid>> >>

\* a Meikyo Shisui of the player that has aged and was then refreshed by a
\* status of 5 stacks from the enemy: the instance of 3 stacks at most is kept
AddStatusRefreshesOrInsertsWitness ==
    /\ "MEIKYO" \in DOMAIN statuses["P"]
    /\ statuses["P"]["MEIKYO"].time_elapsed > 0
    /\ statuses["P"]["MEIKYO"].source = "E"
    /\ statuses["P"]["MEIKYO"].initial_duration = 10000
    /\ statuses["P"]["MEIKYO"].max_stacks = 3
    /\ statuses["P"]["MEIKYO"].stacks = 3
    /\ status_calls = 2

\* the number of times hook h of status sid on character c is in the log
HookCount(hooks, h, c, sid) ==
    Cardinality({i \in DOMAIN hooks : hooks[i] = <<h, c, sid>>})

\* C17: StatusManager.step(dt) takes dt off the duration of every status, then
\* removes every status whose duration is <= 0 or, if stackable, whose stacks
\* are 0, with exactly one on_remove for each; no expired status remains.
StepRemovesExpired ==
    \A c \in Chars : \A dt \in {0, 3000, 10000, 60000} :
        LET w == StatusManagerStep(World, c, dt)
        IN  /\ \A sid \in DOMAIN w.statuses[c] : ~is_expired(w.statuses[c][sid], 0)
            /\ DOMAIN w.statuses[c] \subseteq DOMAIN statuses[c]
            /\ Len(w.hooks) = Cardinality(DOMAIN statuses[c] \ DOMAIN w.statuses[c])
            /\ \A sid \in DOMAIN statuses[c] :
                   LET old == statuses[c][sid]
                   IN  IF old.duration - dt <= 0 \/ (old.has_stacks /\ old.stacks <= 0)
                       THEN /\ sid \notin DOMAIN w.statuses[c]
                            /\ HookCount(w.hooks, "on_remove", c, sid) = 1
                       ELSE /\ sid \in DOMAIN w.statuses[c]
                            /\ w.statuses[c][sid] =
                                   [old EXCEPT !.duration = old.duration - dt,
                                               !.time_elapsed = old.time_elapsed + dt]
                            /\ HookCount(w.hooks, "on_remove", c, sid) = 0

\* inside Arena.step, the player holds a Meikyo Shisui whose stacks are used
\* up while time is left on it and a live Fugetsu: the StatusManager.step of
\* this iteration removes the first with one on_remove and keeps the second
StepRemovesExpiredWitness ==
    /\ pc = "events"
    /\ ~TaskDue
    /\ remaining_time > 0
    /\ DOMAIN statuses["P"] = {"MEIKYO", "FUGETSU"}
    /\ statuses["P"]["MEIKYO"].stacks = 0
    /\ statuses["P"]["MEIKYO"].duration > 0
    /\ StatusManagerStep(World, "P", 0).hooks = << <<"on_remove", "P", "MEIKYO">> >>
    /\ DOMAIN StatusManagerStep(World, "P", 0).statuses["P"] = {"FUGETSU"}

\* C18: the damage a DoT tick records on its target is the damage computed
\* when the DoT was applied or refreshed last, whatever statuses its source
\* has gained or lost since; the snapshot the DoT carries is that damage, a
\* refresh having retaken it from the source of the incoming status.
DoTSnapshotInvariance ==
    \A c \in Chars :
        /\ dot_log[c].ticked # 0 => dot_log[c].ticked = dot_log[c].applied
        /\ \A sid \in DOMAIN statuses[c] :
               statuses[c][sid].is_dot => statuses[c][sid].snapshot = dot_log[c].applied

\* a Higanbana applied under Fugetsu has ticked for the damage of that moment
\* after the player lost Fugetsu: the same potency would now compute less
DoTSnapshotInvarianceWitness ==
    /\ "HIGANBANA" \in DOMAIN statuses["E"]
    /\ dot_log["E"].ticked = 56
    /\ damage_taken["E"] > 0
    /\ "FUGETSU" \notin DOMAIN statuses["P"]
    /\ calculate_potency_damage(World, "P", statuses["E"]["HIGANBANA"].potency) = 50

\* C19: the damage multiplier of a character is the product of the
\* damage_multiplier of its statuses that are not expired, 1 when it has
\* none: Fugetsu (1.13) and a 1.05 buff give 1.1865 and not 1.18; a status
\* whose duration has run out contributes nothing any more.
DamageMultiplierIsProduct ==
    \A c \in Chars :
        LET m == get_damage_multiplier(World, c)
            live(sid) == sid \in DOMAIN statuses[c] /\ ~is_expired(statuses[c][sid], 0)
        IN  /\ m = Fraction((IF live("FUGETSU") THEN 113 ELSE 100)
                               * (IF live("BUFF") THEN 105 ELSE 100), 10000)
            /\ live("FUGETSU") /\ live("BUFF") =>
                   m = Fraction(11865, 10000) /\ m # Fraction(118, 100)
            /\ DOMAIN statuses[c] = {} => m = Fraction(1, 1)
            /\ \A sid \in DOMAIN statuses[c] :
                   get_damage_multiplier([World EXCEPT !.statuses[c][sid].duration = 0], c)
                       = Fraction((IF live("FUGETSU") /\ sid # "FUGETSU" THEN 113 ELSE 100)
                                    * (IF live("BUFF") /\ sid # "BUFF" THEN 105 ELSE 100),
                                  10000)

\* the player holds Fugetsu and the 1.05 buff, both with time left, and a
\* Higanbana applied under both carries the damage of potency 50 times 1.1865
DamageMultiplierIsProductWitness ==
    /\ has_status(World, "P", "FUGETSU", 0)
    /\ has_status(World, "P", "BUFF", 0)
    /\ get_damage_multiplier(World, "P") = Fraction(11865, 10000)
    /\ "HIGANBANA" \in DOMAIN statuses["E"]
    /\ statuses["E"]["HIGANBANA"].snapshot = 59

\* C20: Gyofu, of recast 2500 and one charge, used by the rotation as soon as
\* it is available from time 0 on, has been executed once for every multiple
\* of 2500 reached so far, the last time at that multiple; when the steps
\* have covered the window of 10000 it has been executed exactly 5 times,
\* the last time at 10000.
RecastScenario ==
    LET n == rotation.current_index IN
    /\ current_time <= Window
    /\ n = 0 => current_time = 0 /\ last_iter.n = 0
    /\ n > 0 =>
          /\ n = (current_time \div 2500) + 1
          /\ last_use.ok /\ last_use.action_id = "GYOFU"
          /\ am["P"].cooldowns[RECAST_GROUP_GCD].total = 2500
          /\ current_time - am["P"].cooldowns[RECAST_GROUP_GCD].time_elapsed = 2500 * (n - 1)
    /\ pc = "idle" /\ sum_delta = Window =>
          /\ n = 5
          /\ current_time = 10000
          /\ am["P"].cooldowns[RECAST_GROUP_GCD].time_elapsed = 0

\* the window has been covered in one Arena.step call and in three: five
\* executions, the fifth on the boundary
RecastScenarioWitness ==
    /\ pc = "idle"
    /\ sum_delta = Window
    /\ calls = 3
    /\ current_time = 10000
    /\ rotation.current_index = 5
    /\ am["P"].cooldowns[RECAST_GROUP_GCD] = [time_elapsed |-> 0, total |-> 2500]
    /\ am["P"].animation_lock = ANIMATION_LOCK

\* C21 as stated: after "CHARGED" (2 charges, recast 5000) has been used at 0
\* and at 100, the time_elapsed of its cooldown group is 5000 - 100 = 4900.
SecondUseLeavesElapsed4900 ==
    charge_log = <<0, 100>> /\ current_time = 100 =>
        am["P"].cooldowns[cooldown_group("CHARGED")].time_elapsed = 4900

\* C21: after "CHARGED" has been used at 0 and at 100, its cooldown group has
\* total 10000 and time_elapsed 100: the first use set it to 5000, the step
\* made it 5100 and the second use took 5000 off; 4900 is what is left until
\* one charge is back, and until then the action is on cooldown.
SecondUseLeavesElapsed100 ==
    charge_log = <<0, 100>> /\ current_time = 100 =>
        LET rd == am["P"].cooldowns[cooldown_group("CHARGED")]
        IN  /\ rd = [time_elapsed |-> 100, total |-> 10000]
            /\ rd.total \div max_charges("CHARGED") - rd.time_elapsed = 4900
            /\ ~is_action_offcooldown(am["P"], "CHARGED", 0)
            /\ is_action_offcooldown(am["P"], "CHARGED", 4900)

SecondUseLeavesElapsed100Witness ==
    /\ charge_log = <<0, 100>>
    /\ current_time = 100
    /\ pc = "idle"
    /\ calls = 1
    /\ last_use.action_id = "CHARGED"
    /\ am["P"].cooldowns[cooldown_group("CHARGED")].time_elapsed = 100

\* C22: once "CHARGED" has been used at 0 and at 100 and not again, its
\* cooldown group is idle, both charges back, from time 10000 on and at no
\* time before; one charge is back from time 5000 on.
ChargesRestoredAt10000 ==
    charge_log = <<0, 100>> =>
        LET rd == am["P"].cooldowns[cooldown_group("CHARGED")]
        IN  /\ current_time >= 100
            /\ (rd = RecastIdle) <=> current_time >= 10000
            /\ ~is_active(rd) <=> current_time >= 10000
            /\ current_time < 10000 => rd.total = 10000 /\ rd.time_elapsed = current_time
            /\ is_action_offcooldown(am["P"], "CHARGED", 0) <=> current_time >= 5000

\* both sides of the boundary: the group still runs at 5000 and is idle when
\* the third Arena.step call has brought the clock to 10000
ChargesRestoredAt10000Witness ==
    /\ charge_log = <<0, 100>>
    /\ current_time = 10000
    /\ pc = "idle"
    /\ calls = 3
    /\ last_iter.step_size = 5000
    /\ am["P"].cooldowns[cooldown_group("CHARGED")] = RecastIdle

\* the ordered (action_id, time) pairs of a rotation
Pairs(r) == [i \in DOMAIN r.actions |-> <<r.actions[i].action_id, r.actions[i].time>>]

\* C23: from_dict(to_dict(rotation)) has the name of the rotation and, when
\* no entry carries a condition, the same ordered (action_id, time) pairs,
\* times that are None and repeated actions included; no entry of the
\* reloaded rotation carries a condition.
RotationRoundTrip ==
    LET reloaded == from_dict(to_dict(rotation))
    IN  /\ reloaded.name = rotation.name
        /\ (\A i \in DOMAIN rotation.actions : rotation.actions[i].condition = NONE)
               => Pairs(reloaded) = Pairs(rotation)
        /\ \A i \in DOMAIN reloaded.actions : reloaded.actions[i].condition = NONE
        /\ \A i \in DOMAIN to_dict(rotation).actions :
               to_dict(rotation).actions[i].has_condition
                   = (rotation.actions[i].condition # NONE)

\* a rotation that repeats Gyofu, at time 0 and with no time, and its reload
RotationRoundTripWitness ==
    /\ rotation.name = "opener"
    /\ Pairs(rotation) = << <<"GYOFU", Some(0)>>, <<"GYOFU", None>> >>
    /\ \A i \in DOMAIN rotation.actions : rotation.actions[i].condition = NONE
    /\ from_dict(to_dict(rotation)) = rotation

\* the samples the workers returned, per record index
WorkerSamples == [i \in DOMAIN mc.futures |-> mc.futures[i].result[2]]

\* C24: in run_parallel a record's samples are stored at the record's own
\* index and nowhere else, an index is written at most once and exactly once
\* before the reduction, and the result is what run_standard computes from
\* the same per-record samples, whatever the order of completion.
ParallelEqualsStandard ==
    mc.phase # "none" =>
        /\ \A i \in DOMAIN mc.futures :
              /\ mc.fills[i] = (IF mc.futures[i].state = "YIELDED" THEN 1 ELSE 0)
              /\ mc.futures[i].state # "PENDING" => mc.futures[i].result[1] = i
              /\ mc.monte_carlo_result[i] =
                     (IF mc.futures[i].state = "YIELDED" THEN WorkerSamples[i] ELSE None)
        /\ Len(mc.order) = Cardinality({i \in DOMAIN mc.futures :
                                            mc.futures[i].state = "YIELDED"})
        /\ mc.phase = "done" =>
              /\ \A i \in DOMAIN mc.futures : mc.fills[i] = 1
              /\ mc.result = run_standard(WorkerSamples, mc.num_fights, mc.time_seconds)
        /\ mc.phase # "done" => mc.result = None

\* three records completed in the order 1, 2, 0 with samples whose sum in
\* that order differs from the sum in index order
ParallelEqualsStandardWitness ==
    /\ mc.phase = "done"
    /\ mc.order = <<1, 2, 0>>
    /\ WorkerSamples = (0 :> <<100, 4>> @@ 1 :> <<4, 6>> @@ 2 :> <<6, 100>>)
    /\ mc.time_seconds = 30
    /\ mc.result = << <<10, 3>>, <<11, 3>> >>
    /\ ArrayDiv(AddInOrder(WorkerSamples, Tail(mc.order), WorkerSamples[Head(mc.order)]),
                mc.time_seconds) # mc.result

\* C25: a mixture, and a DamageResult, whose weights are all zero is
\* constructed without an exception and has min = max = mean = variance = 0.
AllZeroWeightsGuarded ==
    (/\ distrib.kind \in {"mixture", "damage"}
     /\ Len(distrib.components) = Len(distrib.weights)
     /\ \A i \in DOMAIN distrib.weights : distrib.weights[i] = 0)
        => distrib.value = [raised |-> NONE, min |-> 0, max |-> 0,
                            mean |-> <<0, 1>>, var |-> <<0, 1>>]

\* C26: each of the four hit-type probabilities of a DamageResult made by
\* calculate_potency_damage lies in [0, 1] and the four sum to 1, whatever
\* the base chances, the bonuses of the statuses and the guarantee flags.
HitProbabilitiesSumToOne ==
    distrib.kind = "potency" =>
        /\ \A i \in 1..4 : distrib.weights[i] >= 0 /\ distrib.weights[i] <= PPM
        /\ SumSeq(distrib.weights) = PPM
        /\ distrib.auto_crt => distrib.weights[1] = 0 /\ distrib.weights[3] = 0
        /\ distrib.auto_dht => distrib.weights[1] = 0 /\ distrib.weights[2] = 0

\* a critical chance pushed over 1 by a bonus, with a direct-hit chance of
\* 0.059 and no guarantee: only critical and critical direct hits remain
HitProbabilitiesSumToOneWitness ==
    /\ distrib.kind = "potency"
    /\ distrib.crit_chance = 1462
    /\ distrib.dht_chance = 59
    /\ ~distrib.auto_crt /\ ~distrib.auto_dht
    /\ distrib.weights = <<0, 941000, 0, 59000>>

\* the product of the speed multipliers of the player's active statuses whose
\* scope includes recast, in 1/10000
RecastSpeed ==
    LET active(sid) == sid \in DOMAIN statuses["P"] /\ ~is_expired(statuses["P"][sid], 0)
    IN  (IF active("FUKA") THEN 87 ELSE 100) * (IF active("HASTE") THEN 90 ELSE 100)

\* the total of the primary cooldown group of action_id after the player has
\* used it in the present state
TotalAfterUse(action_id) ==
    use_action(World, "P", action_id, "E").w.am["P"]
        .cooldowns[cooldown_group(action_id)].total

\* C27 as stated: whatever action is used, the recast time stored for each of
\* its charges is recast_time times the product of the active recast speed
\* multipliers, truncated to a multiple of 10 ms.
StoredRecastIsScaled ==
    pc = "idle" =>
        \A a \in ActionIDs :
            use_action(World, "P", a, "E").ok =>
                TotalAfterUse(a) =
                    max_charges(a) * ((((recast_time(a) * RecastSpeed) \div 10000) \div 10) * 10)

\* C27, amended: the stored recast time is scaled and truncated in that way
\* when the action's cooldown group is the GCD group (2500 ms under 0.87 is
\* stored as 2170 ms); an action of any other group stores recast_time as
\* it is, for each of its charges.
StoredRecastIsScaledForGCD ==
    pc = "idle" =>
        \A a \in ActionIDs :
            use_action(World, "P", a, "E").ok =>
                TotalAfterUse(a) =
                    IF cooldown_group(a) = RECAST_GROUP_GCD
                    THEN (((recast_time(a) * RecastSpeed) \div 10000) \div 10) * 10
                    ELSE max_charges(a) * recast_time(a)

\* Gyofu used by hand under Fuka and a buff of scope CAST: 2170 is stored
StoredRecastIsScaledForGCDWitness ==
    /\ pc = "idle"
    /\ last_use.ok /\ last_use.action_id = "GYOFU"
    /\ DOMAIN statuses["P"] = {"FUKA", "SWIFT"}
    /\ am["P"].cooldowns[RECAST_GROUP_GCD] = [time_elapsed |-> 0, total |-> 2170]
    /\ current_time = 0

\* the four bounds of an ActionManager as the claim lists them
StepBounds(a) ==
    (IF a.animation_lock > 0 THEN {a.animation_lock} ELSE {})
    \cup (IF is_casting(a)
          THEN IF a.casting_apply_callback # NONE
               THEN {Max(0, a.casting_time_max - a.casting_time - APPLY_THRESHOLD)}
               ELSE {a.casting_time_max - a.casting_time}
          ELSE {})
    \cup (IF a.last_combo_action_id # NONE THEN {a.last_combo_time} ELSE {})
    \cup {remaining(a.cooldowns[g]) : g \in {x \in DOMAIN a.cooldowns : is_active(a.cooldowns[x])}}

\* C28: calc_step_size returns the least of the remaining animation lock,
\* the remaining cast time or the time to the apply callback, the combo time
\* remaining and the remaining time of the nearest active cooldown group, and
\* None exactly when none of them is active.
CalcStepSizeIsMinimum ==
    \A c \in Chars :
        ActionManagerCalcStepSize(am[c]) =
            IF StepBounds(am[c]) = {} THEN None ELSE Some(SetMin(StepBounds(am[c])))

\* C29: a status applied at time t with duration D and not refreshed is
\* active until exactly t + D, also when a player's ability puts it on
\* another character during a step: the Higanbana DoT (D = 60000) that the
\* player's cast puts on the enemy has t + D - now left and is there exactly
\* while now < t + D.
StatusLastsExactly ==
    cast_log.applied = 1 /\ cast_log.n = 1 =>
        /\ "HIGANBANA" \in DOMAIN statuses["E"]
              <=> current_time < cast_log.applied_at + 60000
        /\ "HIGANBANA" \in DOMAIN statuses["E"] =>
              statuses["E"]["HIGANBANA"].duration
                  = cast_log.applied_at + 60000 - current_time

\* C30: using an action that has a secondary cooldown group starts that
\* group with the action's additional recast time: Meditate (recast 60000,
\* additional recast 2500 on the GCD group) leaves 60000 on its own group and
\* 2500 on the GCD group.
SecondaryGroupGetsAdditionalRecast ==
    (/\ last_use.ok
     /\ last_use.action_id = "MEDITATE"
     /\ am["P"].cooldowns[cooldown_group("MEDITATE")]
            = [time_elapsed |-> 0, total |-> recast_time("MEDITATE")])
        => am["P"].cooldowns[additional_cooldown_group("MEDITATE")]
               = [time_elapsed |-> 0, total |-> additional_recast_time("MEDITATE")]

(***************************************************************************)
(* Scheduled tasks are executed exactly once.                              *)
(***************************************************************************)
QueueIds(q) == {q[i].id : i \in DOMAIN q}

\* C31: every task is executed exactly once.  The tasks in the queue are
\* distinct tasks created so far; a step adds only tasks created by that
\* step and takes out only the task it executed, which was in the queue
\* and due (so an executed task never returns to the queue and a pending one
\* is never lost), also when the callback schedules tasks while its own task
\* is still at the head; and when Arena.step returns no due task is left.
TaskExecutedExactlyOnce ==
    /\ [](/\ Cardinality(QueueIds(task_queue)) = Len(task_queue)
          /\ \A i \in DOMAIN task_queue : task_queue[i].id < next_id
          /\ last_exec.id < next_id
          /\ last_exec.id \notin QueueIds(task_queue))
    /\ [][/\ next_id' >= next_id
          /\ QueueIds(task_queue')
                = ((QueueIds(task_queue) \ (IF last_exec' # last_exec
                                            THEN {last_exec'.id} ELSE {}))
                   \cup (next_id .. next_id' - 1))
          /\ (last_exec' # last_exec
                 => /\ last_exec'.id \in QueueIds(task_queue)
                    /\ last_exec'.time <= current_time)
          /\ (pc = "events" /\ pc' = "idle" => ~TaskDue')]_vars

\* the server tick has just been executed at the head of the queue and the
\* task it scheduled for 3000 ms later is pending
TaskExecutedExactlyOnceWitness ==
    /\ pc = "events"
    /\ server_tick_on
    /\ last_exec.id # -1
    /\ \E i \in DOMAIN task_queue :
          /\ task_queue[i].callback = "server_tick"
          /\ task_queue[i].id = next_id - 1
          /\ task_queue[i].id > last_exec.id
          /\ task_queue[i].time = last_exec.time + SERVER_TICK_INTERVAL

(***************************************************************************)
(* Charges of "CHARGED": max_charges = 2, recast_time = 5000.              *)
(***************************************************************************)
\* the time at which the charges spent by the first i uses of log are all
\* back, when every charge takes recast r and starts to regenerate when the
\* charge spent before it is back (or at its own use, if none is missing)
RECURSIVE RegenFinish(_, _, _)
RegenFinish(log, i, r) ==
    IF i = 0 THEN 0 ELSE Max(log[i], RegenFinish(log, i - 1, r)) + r

\* C32: charge banking of "CHARGED" (c = 2 charges, recast r = 5000).  Any
\* c + 1 successful uses span at least r, so no window shorter than r holds
\* more than c uses; the cooldown group runs until the last spent charge is
\* back, each charge being back exactly r after the one before it (or r
\* after its use when no charge was missing), and the action is off cooldown
\* exactly when fewer than c charges are missing.
ChargeBanking ==
    LET r == recast_time("CHARGED")
        c == max_charges("CHARGED")
        rd == am["P"].cooldowns[cooldown_group("CHARGED")]
        finish == RegenFinish(charge_log, Len(charge_log), r)
        left == finish - current_time
    IN  /\ \A i \in DOMAIN charge_log :
              i + c \in DOMAIN charge_log => charge_log[i + c] - charge_log[i] >= r
        /\ \A i \in DOMAIN charge_log :
              RegenFinish(charge_log, i - 1, r) - charge_log[i] <= (c - 1) * r
        /\ rd = IF left > 0
                THEN [time_elapsed |-> c * r - left, total |-> c * r]
                ELSE RecastIdle
        /\ left <= c * r
        /\ is_action_offcooldown(am["P"], "CHARGED", 0) <=> left <= (c - 1) * r

\* uses at 0, 4900 and 5000: the third use spends the charge that came back
\* at 5000, the charge spent at 4900 is back at 10000 and the action can be
\* used again then, the last charge being back at 15000
ChargeBankingWitness ==
    /\ charge_log = <<0, 4900, 5000>>
    /\ current_time = 10000
    /\ pc = "idle"
    /\ am["P"].cooldowns[cooldown_group("CHARGED")] = [time_elapsed |-> 5000, total |-> 10000]
    /\ is_action_offcooldown(am["P"], "CHARGED", 0)

(***************************************************************************)
(* The lock of a cast.                                                     *)
(***************************************************************************)
\* C33: for the cast begun last (cast_time > 0) and not cancelled, t being
\* the time since it began: the caster is locked while t < cast_time + 100;
\* before the apply point (t < cast_time - 400) the cast runs with
\* casting_time = t; from the apply point on the animation lock is what is
\* left of cast_time + 100; and at t = cast_time + 100 nothing is left of
\* the cast or its lock (a lock held then is that of an action begun then).
CastLocksUntilEnd ==
    cast_log.n = 1 /\ ~cast_log.cancelled =>
        LET t == current_time - cast_log.started_at
            ct == cast_log.cast_time
            a == am["P"]
        IN  /\ t < ct + CAST_LOCK_EXTRA => is_locked(a, 0)
            /\ 0 <= t /\ t < ct - APPLY_THRESHOLD
                  => is_casting(a) /\ a.casting_time = t
            /\ ct - APPLY_THRESHOLD <= t /\ t < ct + CAST_LOCK_EXTRA
                  => a.animation_lock = ct + CAST_LOCK_EXTRA - t /\ cast_log.applied = 1
            /\ ct - APPLY_THRESHOLD <= t /\ t < ct
                  => is_casting(a) /\ a.casting_time = t
            /\ t = ct + CAST_LOCK_EXTRA
                  => /\ a.animation_lock \in {0} \cup {animation_lock(x) : x \in ActionIDs}
                     /\ is_casting(a) => a.casting_time = 0

\* the apply point of a Higanbana cast: 900 ms after it began the cast still
\* runs and the animation lock has been set to 400 + 100
CastLocksUntilEndWitness ==
    /\ cast_log.n = 1
    /\ ~cast_log.cancelled
    /\ cast_log.cast_time = cast_time("HIGANBANA")
    /\ current_time = cast_log.started_at + cast_log.cast_time - APPLY_THRESHOLD
    /\ cast_log.applied = 1
    /\ is_casting(am["P"])
    /\ am["P"].animation_lock = APPLY_THRESHOLD + CAST_LOCK_EXTRA

(***************************************************************************)
(* The server tick.                                                        *)
(***************************************************************************)
TickTasks(q) == {i \in DOMAIN q : q[i].callback = "server_tick"}

TickTimes(q) == {q[i].time : i \in TickTasks(q)}

MeditateEndsOnUse ==
    last_use.action_id \notin {NONE, "MEDITATE"} => "MEDITATE" \notin DOMAIN statuses["P"]

(***************************************************************************)
(* ActionManager.is_charge_exhausted.                                      *)
(***************************************************************************)
\* C36: for every registered action, single-charge or multi-charge, and in
\* every cooldown state, is_charge_exhausted(action) is True exactly when
\* is_action_offcooldown(action, 0) is False.
ChargeExhaustedIffOnCooldown ==
    \A action_id \in ActionIDs :
        is_charge_exhausted(am["P"], action_id)
            <=> ~is_action_offcooldown(am["P"], action_id, 0)

(***************************************************************************)
(* The combo state.                                                        *)
(***************************************************************************)
\* C37: for every character the combo action is NONE exactly when the combo
\* time is 0, and check_combo_chain(a) is true only for the combo action set
\* and while combo time remains; a successful Gyofu starts its combo with
\* 30000 ms; a step of d ms takes d off the combo time and clears the combo
\* when nothing is left; and from one state to the next the combo time
\* either follows the clock, or the combo is cleared, or a combo is
\* started with 30000 ms, so a combo that is not replaced lasts 30000 ms.
ComboSetIffTimeRemains ==
    /\ [](\A c \in Chars :
            LET a == am[c] IN
            /\ a.last_combo_action_id = NONE <=> a.last_combo_time = 0
            /\ \A x \in ActionIDs :
                  check_combo_chain(a, x)
                      <=> a.last_combo_action_id = x /\ a.last_combo_time > 0
            /\ \A d \in {1, a.last_combo_time - 1, a.last_combo_time,
                          a.last_combo_time + 1} :
                  d > 0 /\ a.last_combo_action_id # NONE =>
                      LET b == ActionManagerStep(World, c, d).am[c]
                      IN  IF d < a.last_combo_time
                          THEN /\ b.last_combo_action_id = a.last_combo_action_id
                               /\ b.last_combo_time = a.last_combo_time - d
                          ELSE /\ b.last_combo_action_id = NONE
                               /\ b.last_combo_time = 0
            /\ LET r == use_action(World, c, "GYOFU", current_target(c))
               IN  r.ok => /\ r.w.am[c].last_combo_action_id = "GYOFU"
                           /\ r.w.am[c].last_combo_time = COMBO_TIME)
    /\ [][\A c \in Chars :
            LET a == am[c]
                b == am'[c]
                d == current_time' - current_time
            IN  \/ /\ b.last_combo_action_id = NONE
                   /\ b.last_combo_time = 0
                \/ /\ a.last_combo_action_id # NONE
                   /\ b.last_combo_action_id = a.last_combo_action_id
                   /\ b.last_combo_time = a.last_combo_time - d
                   /\ b.last_combo_time > 0
                \/ /\ b.last_combo_action_id = last_use'.action_id
                   /\ b.last_combo_action_id # NONE
                   /\ b.last_combo_time = COMBO_TIME]_vars

\* the combo that the second Gyofu started at 5000 has run out at 35000: the
\* step that brought the clock there has cleared the combo action
ComboSetIffTimeRemainsWitness ==
    /\ current_time = 35000
    /\ pc = "events"
    /\ last_iter.step_size > 0
    /\ last_iter.step_size \in last_iter.bounds
    /\ rotation.current_index = 4
    /\ last_use.action_id = "HIGANBANA"
    /\ am["P"].last_combo_action_id = NONE
    /\ am["P"].last_combo_time = 0

(***************************************************************************)
(* The rotation does not stall.                                            *)
(***************************************************************************)
\* C38: whenever Player.step lets the rotation run (the player is neither
\* casting nor locked) on an entry that is attempted (its time is reached,
\* the target resolves, its condition holds), execute_next executes the
\* entry, or raises the fatal error, or the entry waits for a cooldown
\* group of its action that is running and will end; in no other case does
\* the rotation stay on the entry.
RotationNeverStalls ==
    /\ Attempted(World, current_time)
    /\ ~is_casting(am["P"])
    /\ am["P"].animation_lock <= 0
    => LET next_action == rotation.actions[rotation.current_index + 1]
           w == execute_next(World, current_time)
       IN  \/ w.rotation.current_index = rotation.current_index + 1
           \/ w.error
           \/ /\ get_recast_detail(am["P"], next_action.action_id) # None
              /\ ~is_action_offcooldown(am["P"], next_action.action_id, 0)

(***************************************************************************)
(* The Kenki gauge.                                                        *)
(***************************************************************************)
\* C39: the Kenki gauge stays within 0..100 whatever abilities are used and
\* whatever statuses tick, and spend_kenki(amount) fails and leaves the gauge
\* as it is when Kenki is below the amount and takes the amount off otherwise.
KenkiWithinCap ==
    /\ gauge.kenki >= 0
    /\ gauge.kenki <= 100
    /\ \A amount \in {10, 25, 50} :
          LET r == spend_kenki(World, amount)
          IN  IF gauge.kenki < amount
              THEN ~r.ok /\ r.w.gauge = gauge
              ELSE r.ok /\ r.w.gauge = [gauge EXCEPT !.kenki = @ - amount]


\* the statuses of character c that carry the Potion's main-stat bonus
PotionBuffs(sts) == {sid \in DOMAIN sts : sts[sid].main_stat_bonus > 0}

\* C40: distinct effects are tracked independently: a successful Potion
\* leaves the player with a main-stat buff of 30000 ms and with every other
\* status as it was, and a successful Hissatsu: Yaten or Enpi, which gain and
\* consume Enhanced Enpi, leave the Potion buff present with its remaining
\* duration and its parameters unchanged
EffectsTrackedIndependently ==
    \A action_id \in EnpiActions \cup {"POTION"} :
        LET r == use_action(World, "P", action_id, current_target("P"))
            before == statuses["P"]
            after == r.w.statuses["P"]
        IN  (pc = "idle" /\ r.ok) =>
                /\ action_id = "POTION" =>
                       /\ \E sid \in PotionBuffs(after) :
                              /\ after[sid].duration = 30000
                              /\ after[sid].main_stat_bonus = 10
                              /\ after[sid].main_stat_bonus_max = 392
                       /\ \A sid \in DOMAIN before :
                              before[sid].main_stat_bonus = 0 /\ sid # "MEDITATE"
                                  => sid \in DOMAIN after /\ after[sid] = before[sid]
                /\ action_id \in EnpiActions =>
                       \A sid \in PotionBuffs(before) :
                           sid \in DOMAIN after /\ after[sid] = before[sid]

=========================================================================
